---- MODULE Spec2Model ----
(***************************************************************************)
(* A model of thermal_toolkit.fluid_flow: the pipe sizing and friction     *)
(* loss functions, called one at a time by a client; and of the two LMTD   *)
(* functions, the plate heat exchanger selection of heat_exchangers and    *)
(* the stratification assessment of storage_tanks.                         *)
(*                                                                         *)
(* Numbers.  The code computes with IEEE binary64 floats.  The model       *)
(* computes with binary floating point of the same shape and a 24 bit      *)
(* mantissa (TLC's integers are 32 bit): a number is m * 2^e with          *)
(* 2^23 <= |m| < 2^24, zero is m = 0, and every operation rounds its exact *)
(* result to the nearest such number.  NaN and the infinities are kept,    *)
(* because numpy produces them where Python raises.  The exponent is not   *)
(* bounded: no value of the model comes near binary64's range.             *)
(*                                                                         *)
(* Exceptions.  A raised exception is a value whose kind is the            *)
(* exception's name.  Every operation returns the exception its first      *)
(* raised operand holds, in Python's order of evaluation, so an expression *)
(* of the model raises what the Python expression it is written after      *)
(* raises.  A function that tests an argument before computing with it     *)
(* passes a raised argument on first.                                      *)
(*                                                                         *)
(* A value that a function uses more than once is the parameter of a       *)
(* helper definition, named after the function and the step.               *)
(***************************************************************************)
EXTENDS Integers, Sequences, FiniteSets

VARIABLES
  pc,    \* "idle", "cw_loop" and "cw_exit" (in friction_factor_turbulent), "done"
  call,  \* the call being made or last made: its name and arguments
  res,   \* its outcome: the exception raised ("none" for a return) and the value
  cw,    \* the locals of the Colebrook-White loop
  diag,  \* the warnings the call has given, in order
  mem,   \* what outlives a call: the tables of the module, its registry of
         \* warnings, and the caller's mapping of fittings
  shown, \* the adjustment warnings of the call that were displayed
  seen   \* the calls made earlier by the same process, as they were observed

vars == <<pc, call, res, cw, diag, mem, shown, seen>>

----------------------------------------------------------------------------
(* Floating point *)

Two12 == 2^12
Two14 == 2^14
Two22 == 2^22
Two23 == 2^23
Two24 == 2^24
Two27 == 2^27

IAbs(n) == IF n < 0 THEN -n ELSE n
ISgn(n) == IF n < 0 THEN -1 ELSE IF n > 0 THEN 1 ELSE 0

Pow2(k) == IF k <= 0 THEN 1 ELSE 2^k

Pow10(k) == IF k <= 0 THEN 1 ELSE 10^k

\* The number of bits of n >= 0: the powers of two that are not above n.
BitLen(n) == Cardinality({b \in 0..30 : Pow2(b) <= n})

Fin(m, e) == [k |-> "num", m |-> m, e |-> e]
FZero == [k |-> "num", m |-> 0, e |-> 0]
FOne == [k |-> "num", m |-> Two23, e |-> -23]
FNaN == [k |-> "nan", m |-> 0, e |-> 0]
FInf(s) == [k |-> "inf", m |-> s, e |-> 0]
Exc(name) == [k |-> name, m |-> 0, e |-> 0]

IsNum(a) == a.k = "num"
IsNaN(a) == a.k = "nan"
IsInf(a) == a.k = "inf"
IsZero(a) == a.k = "num" /\ a.m = 0
Raised(a) == a.k \notin {"num", "nan", "inf"}

\* The exception a value holds, "none" for a float.
ErrOf(a) == IF Raised(a) THEN a.k ELSE "none"

\* The float of sign s and magnitude a * 2^e, a > 0 having n bits.
NormBits(s, a, e, n) ==
  IF n <= 24 THEN Fin(s * a * Pow2(24 - n), e - (24 - n))
  ELSE IF (a + Pow2(n - 25)) \div Pow2(n - 24) = Two24 THEN Fin(s * Two23, e + n - 23)
  ELSE Fin(s * ((a + Pow2(n - 25)) \div Pow2(n - 24)), e + n - 24)

\* The float nearest to m * 2^e, for |m| < 2^30.
Norm(m, e) == IF m = 0 THEN FZero ELSE NormBits(ISgn(m), IAbs(m), e, BitLen(IAbs(m)))

FromInt(n) == Norm(n, 0)

\* The result of an operation on a and b when one of them is not a number
\* and the operation has no rule of its own for it.
Absorb(a, b) ==
  IF Raised(a) THEN a ELSE IF Raised(b) THEN b ELSE FNaN

FNeg(a) == IF IsNum(a) \/ IsInf(a) THEN [a EXCEPT !.m = -a.m] ELSE a

FAbs(a) == IF IsNum(a) \/ IsInf(a) THEN [a EXCEPT !.m = IAbs(a.m)] ELSE a

\* x * y \div 2^20 for 0 <= x, y < 2^24, by halves of 12 bits.
MulShift20(x, y) ==
  (x \div Two12) * (y \div Two12) * 16
    + (((x \div Two12) * (y % Two12) + (x % Two12) * (y \div Two12))
         + ((x % Two12) * (y % Two12)) \div Two12) \div 256

FMul(a, b) ==
  IF IsNum(a) /\ IsNum(b)
  THEN IF a.m = 0 \/ b.m = 0 THEN FZero
       ELSE Norm(ISgn(a.m) * ISgn(b.m) * MulShift20(IAbs(a.m), IAbs(b.m)),
                 a.e + b.e + 20)
  ELSE IF Raised(a) \/ Raised(b) \/ IsNaN(a) \/ IsNaN(b) \/ a.m = 0 \/ b.m = 0
  THEN Absorb(a, b)
  ELSE FInf(ISgn(a.m) * ISgn(b.m))

\* The quotient bits of r / d, n more of them after q, 7 bits at a time;
\* r < d < 2^24.
RECURSIVE DivBits(_, _, _, _)
DivBits(q, r, d, n) ==
  IF n <= 7 THEN q * Pow2(n) + (r * Pow2(n)) \div d
  ELSE DivBits(q * 128 + (r * 128) \div d, (r * 128) % d, d, n - 7)

\* x * 2^26 \div y for 2^23 <= x, y < 2^24.
DivShift26(x, y) == DivBits(x \div y, x % y, y, 26)

\* numpy's a / b: a zero divisor gives NaN or an infinity.
FDiv(a, b) ==
  IF IsNum(a) /\ IsNum(b)
  THEN IF b.m = 0 THEN (IF a.m = 0 THEN FNaN ELSE FInf(ISgn(a.m)))
       ELSE IF a.m = 0 THEN FZero
       ELSE Norm(ISgn(a.m) * ISgn(b.m) * DivShift26(IAbs(a.m), IAbs(b.m)),
                 a.e - b.e - 26)
  ELSE IF Raised(a) \/ Raised(b) \/ IsNaN(a) \/ IsNaN(b) \/ (IsInf(a) /\ IsInf(b))
  THEN Absorb(a, b)
  ELSE IF IsInf(b) THEN FZero
  ELSE FInf(a.m * (IF b.m < 0 THEN -1 ELSE 1))

\* Python's a / b on floats: a zero divisor raises.
PyDiv(a, b) ==
  IF Raised(a) THEN a
  ELSE IF IsZero(b) THEN Exc("ZeroDivisionError")
  ELSE FDiv(a, b)

\* n rounded to the nearest multiple of 2^s, over 2^s; n >= 0.
ShiftRound(n, s) == IF s <= 0 THEN n ELSE (n + Pow2(s - 1)) \div Pow2(s)

\* a + b for numbers a, b # 0 with a.e >= b.e.
FAddOrd(a, b) ==
  IF a.e - b.e > 26 THEN a
  ELSE IF a.e - b.e <= 6 THEN Norm(a.m * Pow2(a.e - b.e) + b.m, b.e)
  ELSE Norm(a.m * 64 + ISgn(b.m) * ShiftRound(IAbs(b.m), a.e - b.e - 6), a.e - 6)

FAdd(a, b) ==
  IF IsNum(a) /\ IsNum(b)
  THEN IF a.m = 0 THEN b
       ELSE IF b.m = 0 THEN a
       ELSE IF a.e >= b.e THEN FAddOrd(a, b) ELSE FAddOrd(b, a)
  ELSE IF Raised(a) \/ Raised(b) \/ IsNaN(a) \/ IsNaN(b)
            \/ (IsInf(a) /\ IsInf(b) /\ a.m # b.m)
  THEN Absorb(a, b)
  ELSE IF IsInf(a) THEN a ELSE b

FSub(a, b) == FAdd(a, FNeg(b))

\* The sign of a number or an infinity, 0 for anything else.
SignOf(d) == IF IsNum(d) \/ IsInf(d) THEN ISgn(d.m) ELSE 0

\* a < b; false when either is NaN.
FLt(a, b) == SignOf(FSub(a, b)) < 0
FGt(a, b) == SignOf(FSub(a, b)) > 0

\* a <= b; false when either is NaN.
FLe(a, b) == FLt(a, b) \/ (a = b /\ (IsNum(a) \/ IsInf(a)))

\* x * x
Sq(x) == FMul(x, x)

\* floor(sqrt(rad)) for 2^23 <= rad < 2^25: the multiple of 64 below the
\* root, and the root from it.
SqrtHigh(rad) == 64 * Cardinality({h \in 1..90 : (64 * h) * (64 * h) <= rad})

SqrtUnit(rad, q) == q + Cardinality({l \in 1..63 : (q + l) * (q + l) <= rad})

\* The next 14 bits d of the root after q, the greatest d with
\* 2 * q * 2^14 * d + d * d <= r * 4^14 for the remainder r of q: with
\* r * 2^14 = 2 * q * d0 + t it is d0 or one of the three values below it,
\* d0 - j being small enough when (d0 - j)^2 <= t * 2^14 + 2 * q * 2^14 * j.
SqrtFits(q, d0, t, j) == (d0 - j) * (d0 - j) <= t * Two14 + 2 * q * Two14 * j

SqrtFraction(q, d0, t) == d0 - Cardinality({j \in 0..2 : ~SqrtFits(q, d0, t, j)})

\* floor(sqrt(rad * 4^14)) from q = floor(sqrt(rad))
SqrtFrom(rad, q) ==
  q * Two14 + SqrtFraction(q, ((rad - q * q) * Two14) \div (2 * q),
                           ((rad - q * q) * Two14) % (2 * q))

\* floor(sqrt(rad * 4^14)) for 2^23 <= rad < 2^25
SqrtBits(rad) == SqrtFrom(rad, SqrtUnit(rad, SqrtHigh(rad)))

\* numpy.sqrt: NaN for a negative number.
FSqrt(a) ==
  IF IsNum(a)
  THEN IF a.m = 0 THEN FZero
       ELSE IF a.m < 0 THEN FNaN
       ELSE IF a.e % 2 = 1
       THEN Norm(SqrtBits(2 * a.m), ((a.e - 1) \div 2) - 14)
       ELSE Norm(SqrtBits(a.m), (a.e \div 2) - 14)
  ELSE IF IsInf(a) /\ a.m < 0 THEN FNaN
  ELSE a

\* x * y \div 2^26 for 0 <= x, y < 2^27, by halves of 14 bits.
MulShift26(x, y) ==
  (x \div Two14) * (y \div Two14) * 4
    + (((x \div Two14) * (y % Two14) + (x % Two14) * (y \div Two14))
         + ((x % Two14) * (y % Two14)) \div Two14) \div Two12

\* The next n fraction bits of log2(x / 2^26), 2^26 <= x < 2^27, after acc.
\* x and the bits so far; x = 2^26 is 1.0.
Log2State(x, acc) == [x |-> x, acc |-> acc, one |-> x = Pow2(26)]

\* One more bit after s = [x, acc, one]; x2 is the square of x.
Log2Next(s, x2) ==
  IF x2 >= Two27 THEN Log2State(x2 \div 2, 2 * s.acc + 1)
  ELSE Log2State(x2, 2 * s.acc)

\* n >= 1 more bits, half of them and then the rest; the squares of 1.0
\* are 1.0 and its bits are 0.
RECURSIVE Log2Run(_, _)
Log2Run(s, n) ==
  CASE s.one -> Log2State(s.x, s.acc * Pow2(n))
    [] ~s.one /\ n = 1 -> Log2Next(s, MulShift26(s.x, s.x))
    [] OTHER -> Log2Run(Log2Run(s, n \div 2), n - (n \div 2))

Log2Bits(x, acc, n) == Log2Run(Log2State(x, acc), n).acc

\* log2, with numpy's values: -inf at zero and NaN below it.
FLog2(a) ==
  IF IsNum(a)
  THEN IF a.m = 0 THEN FInf(-1)
       ELSE IF a.m < 0 THEN FNaN
       ELSE FAdd(FromInt(a.e + 23), Norm(Log2Bits(a.m * 8, 0, 26), -26))
  ELSE IF IsInf(a) /\ a.m < 0 THEN FNaN
  ELSE a

\* log2(10), as FLog2 gives it.
Log2Of10 == [k |-> "num", m |-> 13933176, e |-> -22]

\* numpy.log10
FLog10(a) == FDiv(FLog2(a), Log2Of10)

\* log2(e)
Log2OfE == [k |-> "num", m |-> 12102203, e |-> -23]

\* numpy.log
FLn(a) == FDiv(FLog2(a), Log2OfE)

\* 2^(F / 2^k) times r, for the k bit fraction F, lowest bit first: r is
\* doubled where the bit is set and its root taken.
\* r and the bits of F that are left; stop when r is not a number.
Exp2State(r, F) == [r |-> r, F |-> F, stop |-> r.k # "num"]

\* The lowest bit of F, for s = [r, F, stop].
Exp2Next(s) ==
  Exp2State(FSqrt([s.r EXCEPT !.e = s.r.e + (s.F % 2)]), s.F \div 2)

\* k >= 1 bits, half of them and then the rest; what is not a number
\* stays as it is.
RECURSIVE Exp2Run(_, _)
Exp2Run(s, k) ==
  CASE s.stop -> s
    [] ~s.stop /\ k = 1 -> Exp2Next(s)
    [] OTHER -> Exp2Run(Exp2Run(s, k \div 2), k - (k \div 2))

Exp2Bits(r, F, k) == Exp2Run(Exp2State(r, F), k).r

\* t * 2^22 as an integer, for a number t with |t| < 256.
Fixed22(t) ==
  IF t.e + 22 >= 0 THEN t.m * Pow2(t.e + 22)
  ELSE IF -(t.e + 22) > 24 THEN (IF t.m < 0 THEN -1 ELSE 0)
  ELSE t.m \div Pow2(-(t.e + 22))

\* 2^(T / 2^22)
Exp2Fixed(r, T) == [r EXCEPT !.e = r.e + (T \div Two22)]

\* 2^t.  t is cut to 22 fraction bits; 2^t with |t| >= 256 is outside the
\* values of the model and goes to infinity or to zero.
FExp2(t) ==
  IF IsNum(t)
  THEN IF t.m = 0 THEN FOne
       ELSE IF t.e + 22 > 6 THEN (IF t.m > 0 THEN FInf(1) ELSE FZero)
       ELSE Exp2Fixed(Exp2Bits(FOne, Fixed22(t) % Two22, 22), Fixed22(t))
  ELSE IF IsInf(t) THEN (IF t.m > 0 THEN t ELSE FZero)
  ELSE t

\* Python's x ** y for floats, x > 0.
FPow(x, y) == FExp2(FMul(y, FLog2(x)))

\* The decimal literal n / 10^k.
Lit(n, k) == FDiv(Norm(n, 0), Norm(Pow10(k), 0))

----------------------------------------------------------------------------
(* Outcomes of a call *)

NoValue == [k |-> "none"]
Ok(v) == [err |-> "none", val |-> v]
Raise(e) == [err |-> e, val |-> NoValue]
IsOk(r) == r.err = "none"

\* The outcome of a call that returns the float v, or raises what v holds.
Outcome(v) == IF Raised(v) THEN Raise(v.k) ELSE Ok(v)

----------------------------------------------------------------------------
(* Module constants *)

WATER_RHO == FromInt(998)
WATER_MU == Lit(1002, 6)
NP_PI == Lit(314159265, 8)

Materials ==
  {"commercial_steel", "pvc", "copper", "cast_iron", "galvanized_steel", "concrete"}

PIPE_ROUGHNESS ==
  [mat \in Materials |->
     CASE mat = "commercial_steel" -> Lit(45, 6)
       [] mat = "pvc" -> Lit(15, 7)
       [] mat = "copper" -> Lit(15, 7)
       [] mat = "cast_iron" -> Lit(26, 5)
       [] mat = "galvanized_steel" -> Lit(15, 5)
       [] mat = "concrete" -> Lit(3, 4)]

STANDARD_DN == <<15, 20, 25, 32, 40, 50, 65, 80, 100, 125, 150, 200, 250, 300>>

----------------------------------------------------------------------------
(* Reynolds number and friction factor *)

reynolds_number(velocity, diameter, rho, mu) ==
  PyDiv(FMul(FMul(rho, velocity), diameter), mu)

\* A variant of friction_factor_laminar with Fanning's 16 in place of Darcy's
\* 64; the property of the laminar branch must tell the two apart.
friction_factor_fanning(Re) == PyDiv(FromInt(16), Re)

\* A variant of friction_factor_laminar that divides as numpy does: 64 / 0 is
\* inf with a warning, not an error.
friction_factor_laminar_np(Re) == FDiv(FromInt(64), Re)

friction_factor_laminar(Re) == PyDiv(FromInt(64), Re)

\* The Swamee-Jain branch, for the relative roughness already computed.
swamee_jain_from_log(lg) ==
  IF Raised(lg) THEN lg ELSE FDiv(Lit(25, 2), Sq(lg))

swamee_jain_from_power(relative_roughness, Re_09) ==
  IF Raised(Re_09) THEN Re_09
  ELSE swamee_jain_from_log(FLog10(FAdd(FDiv(relative_roughness, Lit(37, 1)),
                                        PyDiv(Lit(574, 2), Re_09))))

swamee_jain(Re, relative_roughness) ==
  swamee_jain_from_power(relative_roughness, FPow(Re, Lit(9, 1)))

\* range(10) of the Colebrook-White loop, and its tolerance
CW_MAX_ITER == 10
CW_TOL == Lit(1, 6)

\* f_new of one pass of the loop
cw_update_from_log(lg) ==
  IF Raised(lg) THEN lg ELSE FDiv(FOne, Sq(FMul(FromInt(-2), lg)))

cw_update_from_root(Re, relative_roughness, root) ==
  IF Raised(root) THEN root
  ELSE cw_update_from_log(FLog10(FAdd(FDiv(relative_roughness, Lit(37, 1)),
                                      FDiv(Lit(251, 2), FMul(Re, root)))))

cw_update(Re, relative_roughness, f) ==
  cw_update_from_root(Re, relative_roughness, FSqrt(f))

\* A variant of cw_converged with a tolerance of 1e-3.
cw_converged_loose(f_new, f) == FLt(FAbs(FSub(f_new, f)), Lit(1, 3))

\* the test that breaks out of the loop
cw_converged(f_new, f) == FLt(FAbs(FSub(f_new, f)), CW_TOL)

\* One pass of the loop for s = [f, brk], f_new being computed: the break
\* leaves f as it is, otherwise f = f_new; an exception ends the loop.
cw_pass(s, f_new) ==
  IF Raised(f_new) THEN [f |-> f_new, brk |-> TRUE]
  ELSE IF cw_converged(f_new, s.f) THEN [f |-> s.f, brk |-> TRUE]
  ELSE [f |-> f_new, brk |-> FALSE]

\* n >= 1 passes unless the loop is left before, half of them and then
\* the rest.
RECURSIVE cw_passes(_, _, _, _)
cw_passes(Re, relative_roughness, s, n) ==
  CASE s.brk -> s
    [] ~s.brk /\ n = 1 -> cw_pass(s, cw_update(Re, relative_roughness, s.f))
    [] OTHER -> cw_passes(Re, relative_roughness,
                          cw_passes(Re, relative_roughness, s, n \div 2),
                          n - (n \div 2))

\* What the loop leaves in f, entered with f for pass number i (from 0).
cw_loop(Re, relative_roughness, f, i) ==
  IF i >= CW_MAX_ITER \/ Raised(f) THEN f
  ELSE cw_passes(Re, relative_roughness, [f |-> f, brk |-> FALSE],
                 CW_MAX_ITER - i).f

\* The branches on method, relative_roughness being computed.
turbulent_by_method(Re, relative_roughness, method) ==
  IF Raised(relative_roughness) THEN relative_roughness
  ELSE IF method = "swamee-jain" THEN swamee_jain(Re, relative_roughness)
  ELSE IF method = "colebrook-white"
  THEN cw_loop(Re, relative_roughness, swamee_jain(Re, relative_roughness), 0)
  ELSE Exc("ValueError")

friction_factor_turbulent(Re, roughness, diameter, method) ==
  turbulent_by_method(Re, PyDiv(roughness, diameter), method)

\* A variant of interpolate that weights by (Re - 2300) / 4000.
interpolate_by_upper(f_lam, f_turb, Re) ==
  FAdd(f_lam,
       FDiv(FMul(FSub(f_turb, f_lam), FSub(Re, FromInt(2300))), FromInt(4000)))

\* A variant of interpolate without interpolation: the turbulent value of
\* Re = 4000 all over the transitional range.
interpolate_none(f_lam, f_turb, Re) == f_turb

\* f of the transitional branch
interpolate(f_lam, f_turb, Re) ==
  IF Raised(f_lam) THEN f_lam
  ELSE IF Raised(f_turb) THEN f_turb
  ELSE FAdd(f_lam,
            FDiv(FMul(FSub(f_turb, f_lam), FSub(Re, FromInt(2300))),
                 FromInt(4000 - 2300)))

\* A variant of friction_factor that looks at the method before the regime.
friction_factor_checked(Re, roughness, diameter, method) ==
  IF Raised(Re) THEN Re
  ELSE IF method \notin {"swamee-jain", "colebrook-white"} THEN Exc("ValueError")
  ELSE IF FLt(Re, FromInt(2300)) THEN friction_factor_laminar(Re)
  ELSE IF FGt(Re, FromInt(4000))
  THEN friction_factor_turbulent(Re, roughness, diameter, method)
  ELSE interpolate(friction_factor_laminar(FromInt(2300)),
                   friction_factor_turbulent(FromInt(4000), roughness, diameter, method),
                   Re)

friction_factor(Re, roughness, diameter, method) ==
  IF Raised(Re) THEN Re
  ELSE IF FLt(Re, FromInt(2300)) THEN friction_factor_laminar(Re)
  ELSE IF FGt(Re, FromInt(4000))
  THEN friction_factor_turbulent(Re, roughness, diameter, method)
  ELSE interpolate(friction_factor_laminar(FromInt(2300)),
                   friction_factor_turbulent(FromInt(4000), roughness, diameter, method),
                   Re)

\* Variants of flow_regime that close one of the two open ends.
flow_regime_closed_above(Re) ==
  IF FLt(Re, FromInt(2300)) THEN "laminar"
  ELSE IF ~FLt(Re, FromInt(4000)) THEN "turbulent"
  ELSE "transitional"

flow_regime_closed_below(Re) ==
  IF ~FGt(Re, FromInt(2300)) THEN "laminar"
  ELSE IF FGt(Re, FromInt(4000)) THEN "turbulent"
  ELSE "transitional"

\* The regime that pressure_drop_darcy_weisbach reports.
flow_regime(Re) ==
  IF FLt(Re, FromInt(2300)) THEN "laminar"
  ELSE IF FGt(Re, FromInt(4000)) THEN "turbulent"
  ELSE "transitional"

\* A variant of dynamic_pressure without the square: rho * velocity / 2.
dynamic_pressure_linear(rho, velocity) == FDiv(FMul(rho, velocity), FromInt(2))

\* rho * velocity**2 / 2
dynamic_pressure(rho, velocity) == FDiv(FMul(rho, Sq(velocity)), FromInt(2))

\* The return of pressure_drop_darcy_weisbach: dP and the details.
pdw_return(velocity, length, diameter, Re, f, dP) ==
  IF Raised(dP) THEN Raise(dP.k)
  ELSE Ok([dP |-> dP, Re |-> Re, f |-> f, regime |-> flow_regime(Re),
           velocity |-> velocity, diameter |-> diameter, length |-> length])

pdw_from_f(velocity, length, diameter, rho, Re, f) ==
  IF Raised(f) THEN Raise(f.k)
  ELSE pdw_return(velocity, length, diameter, Re, f,
             FMul(FMul(f, PyDiv(length, diameter)), dynamic_pressure(rho, velocity)))

pdw_from_Re(velocity, length, diameter, roughness, rho, Re) ==
  pdw_from_f(velocity, length, diameter, rho, Re,
             friction_factor(Re, roughness, diameter, "swamee-jain"))

pressure_drop_darcy_weisbach(velocity, length, diameter, roughness, rho, mu) ==
  pdw_from_Re(velocity, length, diameter, roughness, rho,
              reynolds_number(velocity, diameter, rho, mu))

----------------------------------------------------------------------------
(* Minor losses *)

FittingTypes ==
  {"90_elbow", "45_elbow", "tee_branch", "tee_line", "gate_valve_open",
   "globe_valve_open", "check_valve", "entrance_sharp", "entrance_rounded", "exit"}

K_values ==
  [t \in FittingTypes |->
     CASE t = "90_elbow" -> Lit(9, 1)
       [] t = "45_elbow" -> Lit(4, 1)
       [] t = "tee_branch" -> Lit(18, 1)
       [] t = "tee_line" -> Lit(9, 1)
       [] t = "gate_valve_open" -> Lit(2, 1)
       [] t = "globe_valve_open" -> FromInt(10)
       [] t = "check_valve" -> Lit(25, 1)
       [] t = "entrance_sharp" -> Lit(5, 1)
       [] t = "entrance_rounded" -> Lit(5, 2)
       [] t = "exit" -> FromInt(1)]

\* A variant of minor_loss_coefficient that takes a fitting out of the table
\* to have no loss.
minor_loss_coefficient_default(fitting_type) ==
  IF fitting_type \notin FittingTypes THEN FZero
  ELSE K_values[fitting_type]

minor_loss_coefficient(fitting_type) ==
  IF fitting_type \notin FittingTypes THEN Exc("ValueError")
  ELSE K_values[fitting_type]

pressure_drop_minor_losses(velocity, K_total, rho) ==
  FMul(K_total, dynamic_pressure(rho, velocity))

\* A variant of equivalent_length_from that counts each fitting type once.
RECURSIVE equivalent_length_once(_, _, _, _)
equivalent_length_once(fittings, diameter, i, L_eq) ==
  IF i > Len(fittings) THEN L_eq
  ELSE equivalent_length_once(fittings, diameter, i + 1,
         FAdd(L_eq,
              FDiv(FMul(minor_loss_coefficient(fittings[i][1]), diameter),
                   Lit(2, 2))))

\* fittings is the dict in its order: a sequence of <<fitting_type, quantity>>.
RECURSIVE equivalent_length_from(_, _, _, _)
equivalent_length_from(fittings, diameter, i, L_eq) ==
  IF i > Len(fittings) THEN L_eq
  ELSE equivalent_length_from(fittings, diameter, i + 1,
         FAdd(L_eq,
              FDiv(FMul(FMul(FromInt(fittings[i][2]),
                             minor_loss_coefficient(fittings[i][1])),
                        diameter),
                   Lit(2, 2))))

equivalent_length(fittings, diameter) ==
  equivalent_length_from(fittings, diameter, 1, FZero)

\* sum(minor_loss_coefficient(f) * n for f, n in fittings.items())
RECURSIVE K_total_from(_, _, _)
K_total_from(fittings, i, acc) ==
  IF i > Len(fittings) THEN acc
  ELSE K_total_from(fittings, i + 1,
         FAdd(acc, FMul(minor_loss_coefficient(fittings[i][1]),
                        FromInt(fittings[i][2]))))

----------------------------------------------------------------------------
(* Pipe sizing *)

\* the defaults of optimal_pipe_diameter
V_MIN == Lit(6, 1)
V_MAX == FromInt(3)

\* numpy's warning for a / b: a zero divisor, or no defined quotient
DivWarns(a, b) ==
  IF (IsNum(a) /\ IsZero(b)) \/ (IsInf(a) /\ IsInf(b)) THEN <<"RuntimeWarning">>
  ELSE <<>>

\* numpy's warning for sqrt(q): q is negative
SqrtWarns(q) ==
  IF (IsNum(q) \/ IsInf(q)) /\ q.m < 0 THEN <<"RuntimeWarning">> ELSE <<>>

\* 4 * flow_rate / (np.pi * v), the argument of np.sqrt
radicand(flow_rate, v) == PyDiv(FMul(FromInt(4), flow_rate), FMul(NP_PI, v))

\* 4 * flow_rate / (np.pi * D**2) for numpy's D
continuity_velocity(flow_rate, D) ==
  FDiv(FMul(FromInt(4), flow_rate), FMul(NP_PI, Sq(D)))

\* A return of optimal_pipe_diameter, or the exception in D, and the warnings.
opd_result(D, v, w) == [D |-> D, v |-> v, warns |-> w]

\* A variant of opd_adjust that adjusts without a word.
opd_adjust_silent(q, v, w, message) ==
  IF Raised(q) THEN opd_result(q, q, w)
  ELSE opd_result(FSqrt(q), v, w \o SqrtWarns(q))

\* One of the two adjustments: the diameter for the bound v, and the warning.
opd_adjust(q, v, w, message) ==
  IF Raised(q) THEN opd_result(q, q, w)
  ELSE opd_result(FSqrt(q), v, w \o SqrtWarns(q) \o <<message>>)

\* A variant of opd_check that warns and leaves D and the velocity as they are.
opd_check_unclamped(flow_rate, v_min, v_max, D, v_actual, w) ==
  IF FLt(v_actual, v_min) THEN opd_result(D, v_actual, w \o <<"Velocity below minimum">>)
  ELSE IF FGt(v_actual, v_max)
  THEN opd_result(D, v_actual, w \o <<"Velocity above maximum">>)
  ELSE opd_result(D, v_actual, w)

opd_check(flow_rate, v_min, v_max, D, v_actual, w) ==
  IF Raised(v_actual) THEN opd_result(v_actual, v_actual, w)
  ELSE IF FLt(v_actual, v_min)
  THEN opd_adjust(radicand(flow_rate, v_min), v_min, w, "Velocity below minimum")
  ELSE IF FGt(v_actual, v_max)
  THEN opd_adjust(radicand(flow_rate, v_max), v_max, w, "Velocity above maximum")
  ELSE opd_result(D, v_actual, w)

opd_from_D(flow_rate, v_min, v_max, D, w) ==
  IF Raised(D) THEN opd_result(D, D, w)
  ELSE opd_check(flow_rate, v_min, v_max, D, continuity_velocity(flow_rate, D),
            w \o DivWarns(FMul(FromInt(4), flow_rate), FMul(NP_PI, Sq(D))))

opd_from_radicand(flow_rate, v_min, v_max, q) ==
  IF Raised(q) THEN opd_result(q, q, <<>>)
  ELSE opd_from_D(flow_rate, v_min, v_max, FSqrt(q), SqrtWarns(q))

optimal_pipe_diameter(flow_rate, v_min, v_max, v_target) ==
  opd_from_radicand(flow_rate, v_min, v_max, radicand(flow_rate, v_target))

\* the key of min: abs(x - D_calc_mm)
dn_key(x, D_calc_mm) == FAbs(FSub(FromInt(x), D_calc_mm))

\* One step of a variant of min that lets a later element with an equal
\* key win.
min_step_last(seq, D_calc_mm, s) ==
  IF FGt(dn_key(seq[s.i], D_calc_mm), dn_key(s.best, D_calc_mm))
  THEN [i |-> s.i + 1, best |-> s.best]
  ELSE [i |-> s.i + 1, best |-> seq[s.i]]

RECURSIVE min_steps_last(_, _, _, _)
min_steps_last(seq, D_calc_mm, s, n) ==
  CASE s.i > Len(seq) -> s
    [] s.i <= Len(seq) /\ n = 1 -> min_step_last(seq, D_calc_mm, s)
    [] OTHER -> min_steps_last(seq, D_calc_mm,
                               min_steps_last(seq, D_calc_mm, s, n \div 2),
                               n - (n \div 2))

min_by_key_last(seq, D_calc_mm, i, best) ==
  min_steps_last(seq, D_calc_mm, [i |-> i, best |-> best], Len(seq)).best

\* One step of min for s = [i, best]: seq[i] is the best when its key is
\* below the key of the best so far.
min_step(seq, D_calc_mm, s) ==
  IF FLt(dn_key(seq[s.i], D_calc_mm), dn_key(s.best, D_calc_mm))
  THEN [i |-> s.i + 1, best |-> seq[s.i]]
  ELSE [i |-> s.i + 1, best |-> s.best]

\* n >= 1 steps unless the sequence ends before, half of them and then the
\* rest.
RECURSIVE min_steps(_, _, _, _)
min_steps(seq, D_calc_mm, s, n) ==
  CASE s.i > Len(seq) -> s
    [] s.i <= Len(seq) /\ n = 1 -> min_step(seq, D_calc_mm, s)
    [] OTHER -> min_steps(seq, D_calc_mm, min_steps(seq, D_calc_mm, s, n \div 2),
                          n - (n \div 2))

\* Python's min(seq, key=...) from seq[i] on, best being the best before
\* it: the first element that no later one is below.
min_by_key(seq, D_calc_mm, i, best) ==
  min_steps(seq, D_calc_mm, [i |-> i, best |-> best], Len(seq)).best

\* A variant of nearest_standard_dn that answers past the end of the list
\* with the diameter itself, in steps of 50 mm.
nearest_dn_extended(D_calc_mm) ==
  IF FGt(D_calc_mm, FromInt(325)) THEN 350
  ELSE min_by_key(mem.STANDARD_DN, D_calc_mm, 2, mem.STANDARD_DN[1])

nearest_standard_dn(D_calc_mm) ==
  min_by_key(mem.STANDARD_DN, D_calc_mm, 2, mem.STANDARD_DN[1])

\* A variant of wall_thickness with one thickness for every size.
wall_thickness_flat(DN) == FromInt(3)

\* wall thickness of schedule 40 [mm]
wall_thickness(DN) ==
  IF DN <= 50 THEN FromInt(3) ELSE IF DN <= 100 THEN FromInt(4) ELSE FromInt(6)

\* A variant of ssp_return that takes the nominal diameter for the internal
\* one.
ssp_return_nominal(DN, schedule) ==
  IF schedule = "schedule_40"
  THEN Ok([DN |-> DN,
           D_internal |-> FDiv(FromInt(DN), FromInt(1000)),
           D_external |-> FDiv(FromInt(DN), FromInt(1000))])
  ELSE Raise("UnboundLocalError")

\* The diameters of the pipe DN; no other schedule binds them.
ssp_return(DN, schedule) ==
  IF schedule = "schedule_40"
  THEN Ok([DN |-> DN,
           D_internal |-> FDiv(FSub(FromInt(DN), FMul(FromInt(2), wall_thickness(DN))),
                               FromInt(1000)),
           D_external |-> FDiv(FromInt(DN), FromInt(1000))])
  ELSE Raise("UnboundLocalError")

select_standard_pipe(diameter_calculated, schedule) ==
  ssp_return(nearest_standard_dn(FMul(diameter_calculated, FromInt(1000))), schedule)

----------------------------------------------------------------------------
(* pipe_design_summary *)

\* A variant of recalculated_velocity that keeps the velocity of the sizing.
velocity_of_sizing(Q, v_calc, D_internal) == v_calc

\* 4 * Q / (np.pi * D_internal**2); v_calc is the velocity that
\* optimal_pipe_diameter returned, which the code does not use.
recalculated_velocity(Q, v_calc, D_internal) ==
  PyDiv(FMul(FromInt(4), Q), FMul(NP_PI, Sq(D_internal)))

\* The outcome of pipe_design_summary and the warnings given on the way.
pds_result(out, w) == [out |-> out, warns |-> w]

design_record(flow_rate_m3h, Q, DN, D_internal, v_actual, length, L_eq, L_total, details, dP_friction, dP_total, material, roughness) ==
  [flow_rate_m3h |-> flow_rate_m3h,
   flow_rate_m3s |-> Q,
   DN |-> DN,
   D_internal_mm |-> FMul(D_internal, FromInt(1000)),
   D_internal_m |-> D_internal,
   velocity_m_s |-> v_actual,
   length_straight_m |-> length,
   length_equivalent_m |-> L_eq,
   length_total_m |-> L_total,
   Reynolds |-> details.Re,
   friction_factor |-> details.f,
   flow_regime |-> details.regime,
   pressure_drop_friction_Pa |-> dP_friction,
   pressure_drop_friction_kPa |-> FDiv(dP_friction, FromInt(1000)),
   pressure_drop_friction_bar |-> FDiv(dP_friction, FromInt(100000)),
   pressure_drop_total_Pa |-> dP_total,
   pressure_drop_total_kPa |-> FDiv(dP_total, FromInt(1000)),
   pressure_drop_total_bar |-> FDiv(dP_total, FromInt(100000)),
   material |-> material,
   roughness_m |-> roughness]

\* A variant of pds_from_minor whose total adds the minor loss to the friction loss.
pds_from_minor_added(flow_rate_m3h, length, material, Q, pipe, v_actual, L_eq, pd, dP_minor, w) ==
  IF Raised(dP_minor) THEN pds_result(Raise(dP_minor.k), w)
  ELSE pds_result(Ok(design_record(flow_rate_m3h, Q, pipe.DN, pipe.D_internal,
                                   v_actual, length, L_eq, FAdd(length, L_eq),
                                   pd.val, pd.val.dP, FAdd(pd.val.dP, dP_minor),
                                   material, mem.PIPE_ROUGHNESS[material])), w)

\* From the minor loss on: it is computed, and is in no key of the record.
pds_from_minor(flow_rate_m3h, length, material, Q, pipe, v_actual, L_eq, pd, dP_minor, w) ==
  IF Raised(dP_minor) THEN pds_result(Raise(dP_minor.k), w)
  ELSE pds_result(Ok(design_record(flow_rate_m3h, Q, pipe.DN, pipe.D_internal,
                                   v_actual, length, L_eq, FAdd(length, L_eq),
                                   pd.val, pd.val.dP, pd.val.dP, material,
                                   mem.PIPE_ROUGHNESS[material])), w)

pds_from_friction(flow_rate_m3h, length, fittings, material, Q, pipe, v_actual, L_eq, pd, w) ==
  IF ~IsOk(pd) THEN pds_result(Raise(pd.err), w)
  ELSE pds_from_minor(flow_rate_m3h, length, material, Q, pipe, v_actual, L_eq, pd,
         pressure_drop_minor_losses(v_actual, K_total_from(fittings, 1, FZero),
                                    WATER_RHO),
         w)

pds_from_L_eq(flow_rate_m3h, length, fittings, material, Q, pipe, v_actual, L_eq, w) ==
  IF Raised(L_eq) THEN pds_result(Raise(L_eq.k), w)
  ELSE pds_from_friction(flow_rate_m3h, length, fittings, material, Q, pipe,
         v_actual, L_eq,
         pressure_drop_darcy_weisbach(v_actual, FAdd(length, L_eq), pipe.D_internal,
                                      mem.PIPE_ROUGHNESS[material], WATER_RHO, WATER_MU),
         w)

pds_from_velocity(flow_rate_m3h, length, fittings, material, Q, pipe, v_actual, w) ==
  IF Raised(v_actual) THEN pds_result(Raise(v_actual.k), w)
  ELSE IF material \notin DOMAIN mem.PIPE_ROUGHNESS
       THEN pds_result(Raise("KeyError"), w)
  ELSE pds_from_L_eq(flow_rate_m3h, length, fittings, material, Q, pipe, v_actual,
                     equivalent_length(fittings, pipe.D_internal), w)

pds_from_pipe(flow_rate_m3h, length, fittings, material, Q, v_calc, pipe, w) ==
  IF ~IsOk(pipe) THEN pds_result(Raise(pipe.err), w)
  ELSE pds_from_velocity(flow_rate_m3h, length, fittings, material, Q, pipe.val,
                         recalculated_velocity(Q, v_calc, pipe.val.D_internal), w)

pds_from_sizing(flow_rate_m3h, length, fittings, material, Q, opt) ==
  IF Raised(opt.D) THEN pds_result(Raise(opt.D.k), opt.warns)
  ELSE pds_from_pipe(flow_rate_m3h, length, fittings, material, Q, opt.v,
                     select_standard_pipe(opt.D, "schedule_40"), opt.warns)

pds_from_Q(flow_rate_m3h, length, fittings, material, v_target, Q) ==
  pds_from_sizing(flow_rate_m3h, length, fittings, material, Q,
                  optimal_pipe_diameter(Q, V_MIN, V_MAX, v_target))

pipe_design_summary(flow_rate_m3h, length, fittings, material, v_target) ==
  pds_from_Q(flow_rate_m3h, length, fittings, material, v_target,
             FDiv(flow_rate_m3h, FromInt(3600)))

----------------------------------------------------------------------------
(* heat_transfer.py and heat_exchangers.py: the log mean temperature difference *)

\* (dT1 - dT2) / np.log(dT1 / dT2)
log_mean(dT1, dT2) == Outcome(FDiv(FSub(dT1, dT2), FLn(PyDiv(dT1, dT2))))

\* heat_transfer.lmtd from the two differences on: the test of equality
\* comes first, the test of the signs after it.
lmtd_from_dT(dT1, dT2) ==
  IF FLt(FAbs(FSub(dT1, dT2)), Lit(1, 6)) THEN Ok(dT1)
  ELSE IF FLe(dT1, FZero) \/ FLe(dT2, FZero) THEN Raise("ValueError")
  ELSE log_mean(dT1, dT2)

lmtd(T_hot_in, T_hot_out, T_cold_in, T_cold_out) ==
  lmtd_from_dT(FSub(T_hot_in, T_cold_out), FSub(T_hot_out, T_cold_in))

\* heat_exchangers.lmtd_counterflow from the two differences on: the test
\* of the signs comes first.
lmtd_counterflow_from_dT(dT1, dT2) ==
  IF FLe(dT1, FZero) \/ FLe(dT2, FZero) THEN Raise("ValueError")
  ELSE IF FLt(FAbs(FSub(dT1, dT2)), Lit(1, 2)) THEN Ok(dT1)
  ELSE log_mean(dT1, dT2)

lmtd_counterflow(T_hot_in, T_hot_out, T_cold_in, T_cold_out) ==
  lmtd_counterflow_from_dT(FSub(T_hot_in, T_cold_out), FSub(T_hot_out, T_cold_in))

----------------------------------------------------------------------------
(* storage_tanks.py: the Richardson number and its reading *)

\* The reading of Ri that the docstring of richardson_number gives: bands
\* with open ends, None for an Ri in none of them.
documented_stratification(Ri) ==
  IF FGt(Ri, FromInt(10)) THEN "Strong"
  ELSE IF FGt(Ri, FromInt(1)) /\ FLt(Ri, FromInt(10)) THEN "Moderate"
  ELSE IF FLt(Ri, FromInt(1)) THEN "Weak/no"
  ELSE "None"

\* A variant of stratification_quality with the three bands of the docstring.
stratification_quality_documented(Ri) ==
  IF FGt(Ri, FromInt(10)) THEN "Excellent - Strong stratification"
  ELSE IF FGt(Ri, FromInt(1)) THEN "Good - Moderate stratification"
  ELSE "Poor - Mixed/no stratification"

stratification_quality(Ri) ==
  IF FGt(Ri, FromInt(10)) THEN "Excellent - Strong stratification"
  ELSE IF FGt(Ri, FromInt(5)) THEN "Good - Moderate stratification"
  ELSE IF FGt(Ri, FromInt(1)) THEN "Fair - Weak stratification"
  ELSE "Poor - Mixed/no stratification"

----------------------------------------------------------------------------
(* heat_exchangers.py: the choice of a commercial plate heat exchanger *)

\* The dictionary in the order of its entries, with the keys that
\* select_commercial_plate_hx reads.
COMMERCIAL_PLATE_HX ==
  << [name |-> "Alfa_Laval_CB60", max_heat_duty_kW |-> 1000,
      plate_area_m2 |-> Lit(6, 1), max_plates |-> 100],
     [name |-> "Alfa_Laval_CB30", max_heat_duty_kW |-> 500,
      plate_area_m2 |-> Lit(3, 1), max_plates |-> 80],
     [name |-> "APV_R55", max_heat_duty_kW |-> 800,
      plate_area_m2 |-> Lit(55, 2), max_plates |-> 90] >>

PyNone == [k |-> "None"]

\* A string that a function returns.
PyStr(s) == [k |-> "str", s |-> s]

\* The least integer not below m * 2^e, for e < 0.
CeilOf(m, e) ==
  IF -e > 30 THEN (IF m > 0 THEN 1 ELSE 0) ELSE -((-m) \div Pow2(-e))

\* int(np.ceil(x)): no integer for NaN and for an infinity.
int_ceil(x) ==
  IF Raised(x) THEN Raise(x.k)
  ELSE IF IsNaN(x) THEN Raise("ValueError")
  ELSE IF IsInf(x) THEN Raise("OverflowError")
  ELSE IF x.e >= 0 THEN Ok(x.m * Pow2(x.e))
  ELSE Ok(CeilOf(x.m, x.e))

\* if num_plates % 2 != 0: num_plates += 1
even_plates(num_plates) == IF num_plates % 2 # 0 THEN num_plates + 1 ELSE num_plates

\* The dictionary returned for the entry specs.
plate_return(specs, num_plates, total_area, oversizing_factor) ==
  IF Raised(oversizing_factor) THEN Raise(oversizing_factor.k)
  ELSE Ok([model |-> specs.name, specs |-> specs, num_plates |-> num_plates,
           total_area_m2 |-> total_area, oversizing_factor |-> oversizing_factor])

plate_selection(specs, num_plates, area_required) ==
  plate_return(specs, num_plates, FMul(FromInt(num_plates), specs.plate_area_m2),
               PyDiv(FMul(FromInt(num_plates), specs.plate_area_m2), area_required))

\* A variant of plate_fits that does not look at the heat duty.
plate_fits_by_count(specs, num_plates, heat_duty_kW) == num_plates <= specs.max_plates

\* The test of one entry.
plate_fits(specs, num_plates, heat_duty_kW) ==
  /\ num_plates <= specs.max_plates
  /\ FLe(heat_duty_kW, FromInt(specs.max_heat_duty_kW))

\* The loop over the entries from the i-th on; None after the last.
RECURSIVE plate_scan(_, _, _)

plate_try(area_required, heat_duty_kW, i, num_plates) ==
  IF plate_fits(COMMERCIAL_PLATE_HX[i], num_plates, heat_duty_kW)
  THEN plate_selection(COMMERCIAL_PLATE_HX[i], num_plates, area_required)
  ELSE plate_scan(area_required, heat_duty_kW, i + 1)

plate_count(area_required, heat_duty_kW, i, n) ==
  IF ~IsOk(n) THEN n
  ELSE plate_try(area_required, heat_duty_kW, i, even_plates(n.val))

plate_scan(area_required, heat_duty_kW, i) ==
  IF i > Len(COMMERCIAL_PLATE_HX) THEN Ok(PyNone)
  ELSE plate_count(area_required, heat_duty_kW, i,
                   int_ceil(PyDiv(area_required, COMMERCIAL_PLATE_HX[i].plate_area_m2)))

select_commercial_plate_hx(area_required, heat_duty_kW) ==
  plate_scan(area_required, heat_duty_kW, 1)

----------------------------------------------------------------------------
(* What a call leaves behind *)

\* A variant of fittings_after in which the loop takes the items out.
fittings_drained(fittings) == <<>>

\* The caller's mapping after "for fitting_type, quantity in
\* fittings.items()": the loop reads it.
fittings_after(fittings) == fittings

\* A variant of roughness_after that enters a material it does not find.
roughness_filled(table, material) ==
  [mat \in DOMAIN table \cup {material} |->
     IF mat \in DOMAIN table THEN table[mat] ELSE Lit(45, 6)]

\* PIPE_ROUGHNESS after "roughness = PIPE_ROUGHNESS[material]": a read.
roughness_after(table, material) == table

\* The text of an adjustment warning names the limit: f"... Adjusted to
\* {v_min} m/s", and v_max likewise.
warning_key(message, v_min, v_max) ==
  <<message, IF message = "Velocity below minimum" THEN v_min ELSE v_max>>

\* The adjustment warnings among the warnings w of a call.
adjustment_keys(w, v_min, v_max) ==
  {warning_key(w[i], v_min, v_max) : i \in {j \in 1..Len(w) : w[j] # "RuntimeWarning"}}

\* warnings.warn under the filters Python starts with, which the module
\* leaves as they are: a warning is displayed the first time its text is
\* given at a line, and entered in the registry of the module.  The
\* RuntimeWarnings of numpy are kept likewise and are left out here.
registry_after(registry, w, v_min, v_max) ==
  registry \cup adjustment_keys(w, v_min, v_max)

displayed(registry, w, v_min, v_max) == adjustment_keys(w, v_min, v_max) \ registry

----------------------------------------------------------------------------
(* The client: the arguments of its calls *)

ReSpan == 2
MaxDiamSteps == 130
MaxQty == 1
MaxCalls == 2

\* Reynolds numbers: each regime, and every integer within ReSpan of the
\* two boundaries.
ReInputs ==
  {FromInt(n) : n \in {-100, 0, 1, 100, 2000, 3000, 3150, 5000, 100000}}
    \cup {FromInt(2300 + d) : d \in -ReSpan..ReSpan}
    \cup {FromInt(4000 + d) : d \in -ReSpan..ReSpan}
    \cup {Lit(22995, 1)}

RoughnessInputs == {FZero, Lit(45, 6), Lit(26, 5)}
DiameterInputs == {FZero, Lit(5, 2), FromInt(1)}
MethodInputs == {"swamee-jain", "colebrook-white", "moody"}

\* for friction_factor_turbulent called by the client
TurbulentReInputs == {FromInt(n) : n \in {1, 10, 100, 4000, 100000, 1000000000}}

\* With density 1000, viscosity 1 and diameter 1, Re is 1000 * velocity.
VelocityInputs ==
  {FromInt(-1), FZero, Lit(1, 3), FromInt(2), Lit(2299, 3), Lit(23, 1), FromInt(3),
   FromInt(4), Lit(4001, 3), FromInt(5)}
PipeDiameterInputs == {FZero, Lit(5, 2), FromInt(1)}
DensityInputs == {WATER_RHO, FromInt(1000)}
ViscosityInputs == {FZero, WATER_MU, FromInt(1)}
PipeLengthInputs == {FromInt(100)}

\* Calculated diameters [m]: every 2.5 mm up to MaxDiamSteps steps, which
\* passes through midpoints of the catalogue, and some others.
CalcDiameterInputs ==
  {Lit(25 * n, 4) : n \in -1..MaxDiamSteps}
    \cup {Lit(285, 4), Lit(36, 3), FromInt(2), FNaN}
ScheduleInputs == {"schedule_40", "schedule_80"}

\* flow rates [m3/s] and limits of optimal_pipe_diameter
FlowInputs == {FromInt(-1), FZero, Lit(5, 4), Lit(239, 5), Lit(1, 2), Lit(1, 1)}
\* targets below, at, inside and above the limits, and the non-physical ones
OptTargetInputs ==
  {FromInt(-1), FZero, Lit(3, 1), Lit(6, 1), FromInt(2), FromInt(3), FromInt(5)}
LimitInputs == {<<V_MIN, V_MAX>>, <<FromInt(1), Lit(15, 1)>>}

\* the arguments of pipe_design_summary; flow rates in m3/h
FlowRateInputs ==
  {FromInt(-1), FZero, Lit(5, 2), Lit(1, 1), FromInt(1), Lit(861, 2), FromInt(50),
   FromInt(400), FromInt(5000)}
LengthInputs == {Lit(62, 1)}
FittingsInputs ==
  {<<>>, << <<"90_elbow", 4>>, <<"gate_valve_open", 2>> >>, << <<"flange", 1>> >>}
    \cup {<< <<"globe_valve_open", q>> >> : q \in 1..MaxQty}
MaterialInputs == {"commercial_steel", "pvc", "titanium"}
TargetVelocityInputs == {FZero, Lit(3, 1), FromInt(2), FromInt(5)}

\* lengths that are not lengths, and fittings out of the table of K: one
\* that is counted zero times, one that follows a fitting of the table
EdgeLengthInputs == {FZero, FromInt(-1)}
EdgeFittingsInputs ==
  {<< <<"flange", 0>> >>, << <<"90_elbow", 1>>, <<"flange", 2>> >>}

\* the fittings of the end-to-end scenario
ScenarioFittings == << <<"90_elbow", 2>>, <<"gate_valve_open", 1>> >>

\* the calls of pipe_design_summary: every combination of the arguments
\* above, the edge lengths and fittings with some of them, and the scenario
DesignInputs ==
  (FlowRateInputs \X LengthInputs \X FittingsInputs \X MaterialInputs
     \X TargetVelocityInputs)
  \cup ({FromInt(-1), FZero, FromInt(1), Lit(861, 2)} \X EdgeLengthInputs
          \X {<<>>, << <<"90_elbow", 4>>, <<"gate_valve_open", 2>> >>}
          \X {"commercial_steel"} \X {FromInt(2)})
  \cup ({FZero, Lit(861, 2)} \X LengthInputs \X EdgeFittingsInputs
          \X {"commercial_steel", "titanium"} \X {FZero, FromInt(2)})
  \cup ({Lit(861, 2)} \X LengthInputs \X {ScenarioFittings}
          \X {"commercial_steel"} \X {FromInt(2)})

----------------------------------------------------------------------------
(* The state machine *)

\* the temperatures of the two LMTD functions: hot in, hot out, cold in,
\* cold out.  The differences are 50 and 55; 50 and 50; 50 and 50.005;
\* -5 and -5; 0 and 0; -10 and 55; 50 and -5; 50 and 0; 1 and 50.
TemperatureInputs ==
  {<<FromInt(90), FromInt(70), FromInt(15), FromInt(40)>>,
   <<FromInt(90), FromInt(70), FromInt(20), FromInt(40)>>,
   <<FromInt(90), Lit(70005, 3), FromInt(20), FromInt(40)>>,
   <<FromInt(20), FromInt(10), FromInt(15), FromInt(25)>>,
   <<FromInt(40), FromInt(15), FromInt(15), FromInt(40)>>,
   <<FromInt(30), FromInt(70), FromInt(15), FromInt(40)>>,
   <<FromInt(90), FromInt(10), FromInt(15), FromInt(40)>>,
   <<FromInt(90), FromInt(15), FromInt(15), FromInt(40)>>,
   <<FromInt(41), FromInt(65), FromInt(15), FromInt(40)>>}

\* Richardson numbers in, between and at the ends of the bands
RiInputs ==
  {FromInt(-1), FZero, Lit(5, 1), FromInt(1), Lit(15, 1), FromInt(3), FromInt(5),
   Lit(55, 1), FromInt(7), FromInt(10), Lit(105, 1), FromInt(100)}

\* areas [m2] and heat duties [kW] around the limits of the three models
\* 42.0000038 is the float next above 42: divided by 0.6 it rounds to 70.
AreaInputs ==
  {FromInt(-1), FZero, Lit(5, 1), Lit(6, 1), FromInt(1), Lit(12, 1), Lit(36, 1),
   FromInt(10), FromInt(24), FromInt(30), Lit(420000038, 7), Lit(594, 1),
   FromInt(60), FromInt(61), FromInt(100)}
DutyInputs ==
  {FZero, FromInt(100), FromInt(500), FromInt(501), FromInt(800), FromInt(1000),
   FromInt(1001)}

\* A process goes on after a call only with calls of this list, and after
\* at most MaxCalls calls of it.
SessionCalls ==
  {[fn |-> "friction_factor", Re |-> FromInt(3000), roughness |-> Lit(45, 6),
    diameter |-> Lit(5, 2), method |-> "swamee-jain"],
   [fn |-> "friction_factor_turbulent", Re |-> FromInt(100000),
    roughness |-> Lit(45, 6), diameter |-> Lit(5, 2), method |-> "colebrook-white"],
   [fn |-> "pressure_drop_darcy_weisbach", velocity |-> FromInt(2),
    length |-> FromInt(100), diameter |-> Lit(5, 2), roughness |-> Lit(45, 6),
    rho |-> WATER_RHO, mu |-> WATER_MU],
   [fn |-> "select_standard_pipe", diameter_calculated |-> Lit(5, 2),
    schedule |-> "schedule_40"]}
  \cup {[fn |-> "equivalent_length", fittings |-> fittings, diameter |-> Lit(5, 2)] :
          fittings \in {<< <<"90_elbow", 4>>, <<"gate_valve_open", 2>> >>,
                        << <<"flange", 1>> >>}}
  \cup {[fn |-> "optimal_pipe_diameter", flow_rate |-> Lit(1, 2), v_min |-> V_MIN,
          v_max |-> V_MAX, v_target |-> v_target] :
          v_target \in {Lit(3, 1), FromInt(2), FromInt(5)}}
  \cup {[fn |-> "optimal_pipe_diameter", flow_rate |-> Lit(1, 2),
          v_min |-> FromInt(1), v_max |-> Lit(15, 1), v_target |-> Lit(3, 1)]}
  \cup {[fn |-> "pipe_design_summary", flow_rate_m3h |-> Lit(861, 2),
          length |-> Lit(62, 1), fittings |-> ScenarioFittings,
          material |-> "commercial_steel", v_target |-> FromInt(2)],
        [fn |-> "pipe_design_summary", flow_rate_m3h |-> Lit(861, 2),
          length |-> Lit(62, 1), fittings |-> <<>>, material |-> "titanium",
          v_target |-> FromInt(5)],
        [fn |-> "pipe_design_summary", flow_rate_m3h |-> Lit(861, 2),
          length |-> Lit(62, 1),
          fittings |-> << <<"90_elbow", 4>>, <<"gate_valve_open", 2>> >>,
          material |-> "pvc", v_target |-> Lit(3, 1)]}

NoCall == [fn |-> "none"]
Pending == [err |-> "pending", val |-> NoValue]
NoCw == [Re |-> FZero, rr |-> FZero, f |-> FZero, f_new |-> NoValue, i |-> 0,
         brk |-> FALSE]

\* The module as the import leaves it, and no mapping of a caller.
Loaded ==
  [PIPE_ROUGHNESS |-> PIPE_ROUGHNESS, STANDARD_DN |-> STANDARD_DN, registry |-> {},
   fittings |-> <<>>]

\* The first call of a process is any call, the later ones are of the list.
Admitted(c) == seen = {} \/ c \in SessionCalls

Init ==
  /\ pc = "idle"
  /\ call = NoCall
  /\ res = Pending
  /\ cw = NoCw
  /\ diag = <<>>
  /\ mem = Loaded
  /\ shown = {}
  /\ seen = {}

CallFrictionFactor ==
  /\ pc = "idle"
  /\ \E Re \in ReInputs, roughness \in RoughnessInputs, diameter \in DiameterInputs,
        method \in MethodInputs :
       /\ call' = [fn |-> "friction_factor", Re |-> Re, roughness |-> roughness,
                   diameter |-> diameter, method |-> method]
       /\ Admitted(call')
       /\ res' = Outcome(friction_factor(Re, roughness, diameter, method))
  /\ pc' = "done"
  /\ UNCHANGED <<cw, diag, mem, shown, seen>>

CallPressureDrop ==
  /\ pc = "idle"
  /\ \E velocity \in VelocityInputs, length \in PipeLengthInputs,
        diameter \in PipeDiameterInputs, roughness \in {Lit(45, 6)},
        rho \in DensityInputs, mu \in ViscosityInputs :
       /\ call' = [fn |-> "pressure_drop_darcy_weisbach", velocity |-> velocity,
                   length |-> length, diameter |-> diameter, roughness |-> roughness,
                   rho |-> rho, mu |-> mu]
       /\ Admitted(call')
       /\ res' = pressure_drop_darcy_weisbach(velocity, length, diameter, roughness,
                                              rho, mu)
  /\ pc' = "done"
  /\ UNCHANGED <<cw, diag, mem, shown, seen>>

CallSelectStandardPipe ==
  /\ pc = "idle"
  /\ \E diameter_calculated \in CalcDiameterInputs, schedule \in ScheduleInputs :
       /\ call' = [fn |-> "select_standard_pipe",
                   diameter_calculated |-> diameter_calculated, schedule |-> schedule]
       /\ Admitted(call')
       /\ res' = select_standard_pipe(diameter_calculated, schedule)
  /\ pc' = "done"
  /\ UNCHANGED <<cw, diag, mem, shown, seen>>

CallEquivalentLength ==
  /\ pc = "idle"
  /\ \E fittings \in FittingsInputs \cup EdgeFittingsInputs,
        diameter \in PipeDiameterInputs :
       /\ call' = [fn |-> "equivalent_length", fittings |-> fittings,
                   diameter |-> diameter]
       /\ Admitted(call')
       /\ res' = Outcome(equivalent_length(fittings, diameter))
       /\ mem' = [mem EXCEPT !.fittings = fittings_after(fittings)]
  /\ pc' = "done"
  /\ UNCHANGED <<cw, diag, shown, seen>>

\* The outcome and the warnings of a call of optimal_pipe_diameter.
OpdDone(opt, v_min, v_max) ==
  /\ res' = IF Raised(opt.D) THEN Raise(opt.D.k) ELSE Ok([D |-> opt.D, v |-> opt.v])
  /\ diag' = opt.warns
  /\ mem' = [mem EXCEPT !.registry = registry_after(@, opt.warns, v_min, v_max)]
  /\ shown' = displayed(mem.registry, opt.warns, v_min, v_max)

CallOptimalPipeDiameter ==
  /\ pc = "idle"
  /\ \E flow_rate \in FlowInputs, limits \in LimitInputs, v_target \in OptTargetInputs :
       /\ call' = [fn |-> "optimal_pipe_diameter", flow_rate |-> flow_rate,
                   v_min |-> limits[1], v_max |-> limits[2], v_target |-> v_target]
       /\ Admitted(call')
       /\ OpdDone(optimal_pipe_diameter(flow_rate, limits[1], limits[2], v_target),
                  limits[1], limits[2])
  /\ pc' = "done"
  /\ UNCHANGED <<cw, seen>>

\* The outcome and the warnings of a call of pipe_design_summary.
PdsDone(r, fittings, material) ==
  /\ res' = r.out
  /\ diag' = r.warns
  /\ mem' = [mem EXCEPT !.PIPE_ROUGHNESS = roughness_after(@, material),
                        !.registry = registry_after(@, r.warns, V_MIN, V_MAX),
                        !.fittings = fittings_after(fittings)]
  /\ shown' = displayed(mem.registry, r.warns, V_MIN, V_MAX)

CallPipeDesignSummary ==
  /\ pc = "idle"
  /\ \E args \in DesignInputs :
       /\ call' = [fn |-> "pipe_design_summary", flow_rate_m3h |-> args[1],
                   length |-> args[2], fittings |-> args[3], material |-> args[4],
                   v_target |-> args[5]]
       /\ Admitted(call')
       /\ PdsDone(pipe_design_summary(args[1], args[2], args[3], args[4], args[5]),
                  args[3], args[4])
  /\ pc' = "done"
  /\ UNCHANGED <<cw, seen>>

CallLmtd ==
  /\ pc = "idle"
  /\ \E T \in TemperatureInputs :
       /\ call' = [fn |-> "lmtd", T_hot_in |-> T[1], T_hot_out |-> T[2],
                   T_cold_in |-> T[3], T_cold_out |-> T[4]]
       /\ Admitted(call')
       /\ res' = lmtd(T[1], T[2], T[3], T[4])
  /\ pc' = "done"
  /\ UNCHANGED <<cw, diag, mem, shown, seen>>

CallLmtdCounterflow ==
  /\ pc = "idle"
  /\ \E T \in TemperatureInputs :
       /\ call' = [fn |-> "lmtd_counterflow", T_hot_in |-> T[1], T_hot_out |-> T[2],
                   T_cold_in |-> T[3], T_cold_out |-> T[4]]
       /\ Admitted(call')
       /\ res' = lmtd_counterflow(T[1], T[2], T[3], T[4])
  /\ pc' = "done"
  /\ UNCHANGED <<cw, diag, mem, shown, seen>>

CallStratificationQuality ==
  /\ pc = "idle"
  /\ \E Ri \in RiInputs :
       /\ call' = [fn |-> "stratification_quality", Ri |-> Ri]
       /\ Admitted(call')
       /\ res' = Ok(PyStr(stratification_quality(Ri)))
  /\ pc' = "done"
  /\ UNCHANGED <<cw, diag, mem, shown, seen>>

CallSelectCommercialPlateHx ==
  /\ pc = "idle"
  /\ \E area_required \in AreaInputs, heat_duty_kW \in DutyInputs :
       /\ call' = [fn |-> "select_commercial_plate_hx",
                   area_required |-> area_required, heat_duty_kW |-> heat_duty_kW]
       /\ Admitted(call')
       /\ res' = select_commercial_plate_hx(area_required, heat_duty_kW)
  /\ pc' = "done"
  /\ UNCHANGED <<cw, diag, mem, shown, seen>>

\* friction_factor_turbulent up to its loop: the Colebrook-White branch
\* enters the loop with the Swamee-Jain value, the others finish the call.
FftEnter(Re, relative_roughness, method, seed) ==
  IF method = "colebrook-white" /\ ~Raised(relative_roughness) /\ ~Raised(seed)
  THEN /\ pc' = "cw_loop"
       /\ res' = Pending
       /\ cw' = [Re |-> Re, rr |-> relative_roughness, f |-> seed, f_new |-> NoValue,
                 i |-> 0, brk |-> FALSE]
  ELSE /\ pc' = "done"
       /\ res' = Outcome(turbulent_by_method(Re, relative_roughness, method))
       /\ cw' = NoCw

FftCall(Re, relative_roughness, method) ==
  FftEnter(Re, relative_roughness, method,
           IF method = "colebrook-white" THEN swamee_jain(Re, relative_roughness)
           ELSE FZero)

CallFrictionFactorTurbulent ==
  /\ pc = "idle"
  /\ \E Re \in TurbulentReInputs, roughness \in RoughnessInputs,
        diameter \in DiameterInputs, method \in MethodInputs :
       /\ call' = [fn |-> "friction_factor_turbulent", Re |-> Re,
                   roughness |-> roughness, diameter |-> diameter, method |-> method]
       /\ Admitted(call')
       /\ FftCall(Re, PyDiv(roughness, diameter), method)
  /\ UNCHANGED <<diag, mem, shown, seen>>

\* A variant of CwPass that assigns f = f_new before the test, so that the
\* break leaves the newest iterate in f.
CwPassNewest(f_new) ==
  IF cw_converged(f_new, cw.f)
  THEN /\ cw' = [cw EXCEPT !.f = f_new, !.f_new = f_new, !.i = cw.i + 1, !.brk = TRUE]
       /\ pc' = "cw_exit"
  ELSE /\ cw' = [cw EXCEPT !.f = f_new, !.f_new = f_new, !.i = cw.i + 1]
       /\ pc' = IF cw.i + 1 >= CW_MAX_ITER THEN "cw_exit" ELSE "cw_loop"

\* One pass of the loop with f_new computed: the break, or the assignment
\* and the next pass if range(10) has one.
CwPass(f_new) ==
  IF cw_converged(f_new, cw.f)
  THEN /\ cw' = [cw EXCEPT !.f_new = f_new, !.i = cw.i + 1, !.brk = TRUE]
       /\ pc' = "cw_exit"
  ELSE /\ cw' = [cw EXCEPT !.f = f_new, !.f_new = f_new, !.i = cw.i + 1]
       /\ pc' = IF cw.i + 1 >= CW_MAX_ITER THEN "cw_exit" ELSE "cw_loop"

CWIterate ==
  /\ pc = "cw_loop"
  /\ CwPass(cw_update(cw.Re, cw.rr, cw.f))
  /\ UNCHANGED <<call, res, diag, mem, shown, seen>>

\* return f
CWReturn ==
  /\ pc = "cw_exit"
  /\ pc' = "done"
  /\ res' = Outcome(cw.f)
  /\ UNCHANGED <<call, cw, diag, mem, shown, seen>>

\* The client takes the outcome and the process ends; the next call is the
\* first of a new process, which imports the module.
Finish ==
  /\ pc = "done"
  /\ pc' = "idle"
  /\ call' = NoCall
  /\ res' = Pending
  /\ cw' = NoCw
  /\ diag' = <<>>
  /\ mem' = Loaded
  /\ shown' = {}
  /\ seen' = {}

\* The client takes the outcome and the process goes on to another call:
\* the locals of the call are gone, the module stays as the call left it,
\* and the caller lets go of its mapping.
Continue ==
  /\ pc = "done"
  /\ call \in SessionCalls
  /\ Cardinality(seen) < MaxCalls
  /\ pc' = "idle"
  /\ call' = NoCall
  /\ res' = Pending
  /\ cw' = NoCw
  /\ diag' = <<>>
  /\ mem' = [mem EXCEPT !.fittings = <<>>]
  /\ shown' = {}
  /\ seen' = seen \cup {[call |-> call, res |-> res, diag |-> diag, shown |-> shown]}

Next ==
  \/ CallFrictionFactor
  \/ CallPressureDrop
  \/ CallSelectStandardPipe
  \/ CallEquivalentLength
  \/ CallOptimalPipeDiameter
  \/ CallPipeDesignSummary
  \/ CallFrictionFactorTurbulent
  \/ CallLmtd
  \/ CallLmtdCounterflow
  \/ CallStratificationQuality
  \/ CallSelectCommercialPlateHx
  \/ CWIterate
  \/ CWReturn
  \/ Finish
  \/ Continue

Spec == Init /\ [][Next]_vars

\* The loop and the return are steps of one running call, which runs on:
\* weak fairness of both.  That of CWIterate is written out, as
\* []<>~ENABLED <<A>>_vars \/ []<><<A>>_vars: a pass is enabled exactly
\* where pc = "cw_loop", since it counts i up whatever f_new is.
FairSpec ==
  /\ Spec
  /\ ([]<>(pc # "cw_loop") \/ []<><<CWIterate>>_vars)
  /\ WF_vars(CWReturn)

----------------------------------------------------------------------------
(* Properties *)

\* The call of fn has returned.
Returned(fn) == pc = "done" /\ call.fn = fn /\ res.err = "none"

\* C1: the regime that pressure_drop_darcy_weisbach reports for the Reynolds
\* number of its arguments is 'laminar' if Re < 2300, 'turbulent' if
\* Re > 4000 and 'transitional' otherwise, Re = 2300 and Re = 4000 included.
C1_RegimeByReynolds ==
  Returned("pressure_drop_darcy_weisbach") =>
    /\ res.val.Re = FDiv(FMul(FMul(call.rho, call.velocity), call.diameter), call.mu)
    /\ FLt(res.val.Re, FromInt(2300)) => res.val.regime = "laminar"
    /\ FGt(res.val.Re, FromInt(4000)) => res.val.regime = "turbulent"
    /\ (~FLt(res.val.Re, FromInt(2300)) /\ ~FGt(res.val.Re, FromInt(4000)))
         => res.val.regime = "transitional"

\* A pressure drop at Re = 4000 exactly, reported as transitional.
C1_Witness ==
  /\ Returned("pressure_drop_darcy_weisbach")
  /\ res.val.Re = FromInt(4000)
  /\ res.val.regime = "transitional"

\* C2: for 2300 <= Re <= 4000 and a turbulent formula that has a value at
\* Re = 4000 for the given roughness, diameter and method, friction_factor
\* returns f_lam + (f_turb - f_lam) * (Re - 2300) / 1700 with f_lam = 64/2300
\* and f_turb that value.
C2_TransitionalInterpolation ==
  (/\ pc = "done"
   /\ call.fn = "friction_factor"
   /\ ~FLt(call.Re, FromInt(2300))
   /\ ~FGt(call.Re, FromInt(4000)))
  => LET f_lam == FDiv(FromInt(64), FromInt(2300))
         f_turb == friction_factor_turbulent(FromInt(4000), call.roughness,
                                             call.diameter, call.method)
     IN  ~Raised(f_turb) =>
           res = Ok(FAdd(f_lam,
                         FDiv(FMul(FSub(f_turb, f_lam), FSub(call.Re, FromInt(2300))),
                              FromInt(1700))))

\* The middle of the transitional range under Colebrook-White: a value
\* strictly between the laminar 64/2300 and the turbulent one.
C2_Witness ==
  /\ Returned("friction_factor")
  /\ call.Re = FromInt(3150)
  /\ call.method = "colebrook-white"
  /\ FGt(res.val, FDiv(FromInt(64), FromInt(2300)))
  /\ FLt(res.val, friction_factor_turbulent(FromInt(4000), call.roughness,
                                            call.diameter, call.method))

\* C3: for 0 < Re < 2300, friction_factor returns 64/Re whatever the
\* roughness, the diameter and the method are: no method is consulted.
C3_LaminarExact ==
  (/\ pc = "done"
   /\ call.fn = "friction_factor"
   /\ FGt(call.Re, FZero)
   /\ FLt(call.Re, FromInt(2300)))
  => res = Ok(FDiv(FromInt(64), call.Re))

\* Just below 2300 with a method that has no formula and a diameter of 0.
C3_Witness ==
  /\ Returned("friction_factor")
  /\ call.Re = Lit(22995, 1)
  /\ call.method = "moody"
  /\ call.diameter = FZero
  /\ res.val = FDiv(FromInt(64), Lit(22995, 1))

\* C4, as the code has it: at Re = 2300 exactly the flow is reported as
\* transitional, and the friction factor is 64/2300.
C4_BoundaryTransitional ==
  /\ (Returned("pressure_drop_darcy_weisbach") /\ res.val.Re = FromInt(2300))
       => /\ res.val.regime = "transitional"
          /\ res.val.f = FDiv(FromInt(64), FromInt(2300))
  /\ (Returned("friction_factor") /\ call.Re = FromInt(2300))
       => res.val = FDiv(FromInt(64), FromInt(2300))

\* A pressure drop at Re = 2300 exactly with f = 64/2300.
C4_Witness ==
  /\ Returned("pressure_drop_darcy_weisbach")
  /\ res.val.Re = FromInt(2300)
  /\ res.val.f = FDiv(FromInt(64), FromInt(2300))

\* C4, as stated: at Re = 2300 exactly the flow is reported as laminar, and
\* the friction factor is 64/2300.
C4_BoundaryLaminar ==
  (Returned("pressure_drop_darcy_weisbach") /\ res.val.Re = FromInt(2300))
    => /\ res.val.regime = "laminar"
       /\ res.val.f = FDiv(FromInt(64), FromInt(2300))

\* C5, as stated: friction_factor and pressure_drop_darcy_weisbach raise
\* for every Re <= 0, and return nothing.
C5_NonPositiveReRaises ==
  /\ (pc = "done" /\ call.fn = "friction_factor" /\ ~FGt(call.Re, FZero))
       => res.err # "none"
  /\ (pc = "done" /\ call.fn = "pressure_drop_darcy_weisbach"
        /\ ~Raised(reynolds_number(call.velocity, call.diameter, call.rho, call.mu))
        /\ ~FGt(reynolds_number(call.velocity, call.diameter, call.rho, call.mu), FZero))
       => res.err # "none"

\* The client's call of friction_factor_turbulent is in or past its loop.
InColebrookWhite ==
  /\ call.fn = "friction_factor_turbulent"
  /\ call.method = "colebrook-white"
  /\ pc \in {"cw_loop", "cw_exit"} \/ (pc = "done" /\ cw # NoCw)

\* The states of a Colebrook-White call: the loop starts from the
\* Swamee-Jain value, has made at most 10 updates, is left before the tenth
\* only by the tolerance, after the tenth with f the tenth update, and the
\* call returns f without an exception.
CWStateOk ==
  InColebrookWhite =>
    /\ cw.i \in 0..10
    /\ cw.i = 0 =>
         cw.f = FDiv(Lit(25, 2),
                     Sq(FLog10(FAdd(FDiv(cw.rr, Lit(37, 1)),
                                    FDiv(Lit(574, 2), FPow(cw.Re, Lit(9, 1)))))))
    /\ pc = "cw_loop" => cw.i < 10 /\ ~cw.brk
    /\ cw.brk => cw.i >= 1 /\ FLt(FAbs(FSub(cw.f_new, cw.f)), Lit(1, 6))
    /\ (pc # "cw_loop" /\ ~cw.brk) => cw.i = 10 /\ cw.f = cw.f_new
    /\ pc = "done" => res = Ok(cw.f)

\* A pass that meets the tolerance ends the loop: the loop goes on only
\* with an update that is 1e-6 or more away from the f before it.
CWGoesOn ==
  (pc = "cw_loop" /\ pc' = "cw_loop") =>
    /\ cw'.i = cw.i + 1
    /\ ~FLt(FAbs(FSub(cw'.f, cw.f)), Lit(1, 6))

\* C6: the Colebrook-White solver starts from the Swamee-Jain estimate,
\* makes at most 10 updates, stops at the first update within 1e-6 of the
\* one before, returns the tenth update when none was, raises nothing, and
\* every call of it returns.
C6_ColebrookWhiteTerminates ==
  /\ []CWStateOk
  /\ [][CWGoesOn]_vars
  /\ (pc = "cw_loop") ~> (pc = "done")

\* A call that used all 10 updates without meeting the tolerance and
\* returned the tenth.
C6_Witness ==
  /\ Returned("friction_factor_turbulent")
  /\ call.method = "colebrook-white"
  /\ cw.i = 10
  /\ ~cw.brk
  /\ res.val = cw.f_new

\* the list of nominal sizes, as the claims state it
Catalog == <<15, 20, 25, 32, 40, 50, 65, 80, 100, 125, 150, 200, 250, 300>>

\* C7: the DN that select_standard_pipe returns, and the 'DN' of a record
\* of pipe_design_summary, is a member of the list of standard sizes.
C7_DNInCatalog ==
  (Returned("select_standard_pipe") \/ Returned("pipe_design_summary"))
    => \E j \in 1..Len(Catalog) : res.val.DN = Catalog[j]

\* A diameter of 2 m, far past the list, gets the last entry.
C7_Witness ==
  /\ Returned("select_standard_pipe")
  /\ call.diameter_calculated = FromInt(2)
  /\ res.val.DN = 300

\* |DN - D_calculated_mm| of the call of select_standard_pipe
Distance(DN) == FAbs(FSub(FromInt(DN), FMul(call.diameter_calculated, FromInt(1000))))

\* C8: no entry of the list is nearer to the calculated diameter than the
\* DN returned, and every entry before it in the list is farther: of two
\* entries at the same distance the one with the smaller index is returned.
C8_NearestTiesToSmaller ==
  Returned("select_standard_pipe") =>
    \A j \in 1..Len(Catalog) :
      /\ ~FLt(Distance(Catalog[j]), Distance(res.val.DN))
      /\ (Catalog[j] < res.val.DN /\ ~IsNaN(call.diameter_calculated))
           => FGt(Distance(Catalog[j]), Distance(res.val.DN))

\* 17.5 mm is midway between 15 and 20: 15 is returned.
C8_Witness ==
  /\ Returned("select_standard_pipe")
  /\ Distance(15) = Distance(20)
  /\ IsNum(Distance(15))
  /\ res.val.DN = 15

\* the wall thickness [mm] as the claim states it
WallStep(DN) == IF DN <= 50 THEN 3 ELSE IF DN <= 100 THEN 4 ELSE 6

\* C9: under schedule_40, D_internal = (DN - 2 * wall) / 1000 with wall 3 mm
\* for DN <= 50, 4 mm for 50 < DN <= 100 and 6 mm above, D_external =
\* DN / 1000, and 0 < D_internal < D_external.
C9_Schedule40Diameters ==
  (Returned("select_standard_pipe") /\ call.schedule = "schedule_40") =>
    /\ res.val.D_internal
         = FDiv(FSub(FromInt(res.val.DN), FMul(FromInt(2), FromInt(WallStep(res.val.DN)))),
                FromInt(1000))
    /\ res.val.D_external = FDiv(FromInt(res.val.DN), FromInt(1000))
    /\ FGt(res.val.D_internal, FZero)
    /\ FLt(res.val.D_internal, res.val.D_external)

\* DN 125, of the thickest wall: 113 mm inside.
C9_Witness ==
  /\ Returned("select_standard_pipe")
  /\ res.val.DN = 125
  /\ res.val.D_internal = FDiv(FromInt(113), FromInt(1000))

\* C10: the velocity of a record of pipe_design_summary is
\* 4 Q / (pi * D_internal^2) for Q = flow_rate_m3h / 3600 and the internal
\* diameter of the DN of the record; no limit is applied to it.
C10_VelocityFromStandardSize ==
  Returned("pipe_design_summary") =>
    /\ res.val.flow_rate_m3s = FDiv(call.flow_rate_m3h, FromInt(3600))
    /\ res.val.D_internal_m
         = FDiv(FSub(FromInt(res.val.DN), FMul(FromInt(2), FromInt(WallStep(res.val.DN)))),
                FromInt(1000))
    /\ res.val.velocity_m_s
         = FDiv(FMul(FromInt(4), res.val.flow_rate_m3s),
                FMul(NP_PI, Sq(res.val.D_internal_m)))

\* A record whose velocity is above the 3.0 m/s that the sizing allows, the
\* sizing having warned that it lowered the velocity to that limit.
C10_Witness ==
  /\ Returned("pipe_design_summary")
  /\ FGt(res.val.velocity_m_s, V_MAX)
  /\ diag = <<"Velocity above maximum">>

\* The adjustment diagnostics among the warnings w, numpy's own left out.
Adjustments(w) == SelectSeq(w, LAMBDA m : m # "RuntimeWarning")

\* sqrt(4 Q / (pi * v)) as numpy computes it
SizedDiameter(Q, v) == FSqrt(FDiv(FMul(FromInt(4), Q), FMul(NP_PI, v)))

\* 4 Q / (pi * D^2): the velocity that the code compares with the limits
SizedVelocity(Q, D) == FDiv(FMul(FromInt(4), Q), FMul(NP_PI, Sq(D)))

\* A finished call of optimal_pipe_diameter with a positive flow rate.
SizingCall ==
  pc = "done" /\ call.fn = "optimal_pipe_diameter" /\ FGt(call.flow_rate, FZero)

DesignKeys ==
  {"flow_rate_m3h", "flow_rate_m3s", "DN", "D_internal_mm", "D_internal_m",
   "velocity_m_s", "length_straight_m", "length_equivalent_m", "length_total_m",
   "Reynolds", "friction_factor", "flow_regime", "pressure_drop_friction_Pa",
   "pressure_drop_friction_kPa", "pressure_drop_friction_bar",
   "pressure_drop_total_Pa", "pressure_drop_total_kPa", "pressure_drop_total_bar",
   "material", "roughness_m"}

\* The sizing for flow rate Q and target v leaves [v_min, v_max] and is adjusted.
OutOfBand(Q, v, v_min, v_max) ==
  \/ FLt(SizedVelocity(Q, SizedDiameter(Q, v)), v_min)
  \/ FGt(SizedVelocity(Q, SizedDiameter(Q, v)), v_max)

\* A finished call of pipe_design_summary whose arguments are in the tables
\* and positive.
DesignCall ==
  /\ pc = "done"
  /\ call.fn = "pipe_design_summary"
  /\ FGt(call.flow_rate_m3h, FZero)
  /\ FGt(call.v_target, FZero)
  /\ FGt(call.length, FZero)
  /\ call.material \in Materials
  /\ \A i \in 1..Len(call.fittings) : call.fittings[i][1] \in FittingTypes

\* C12, as the code has it: an adjusted sizing is not an error, and its
\* diagnostic goes out as a warning: optimal_pipe_diameter returns D and the
\* velocity and nothing else, the record of pipe_design_summary has its
\* twenty keys and none for a diagnostic.
C12_AdjustmentIsAWarning ==
  /\ (SizingCall /\ ~IsZero(call.v_target))
       => /\ res.err = "none"
          /\ DOMAIN res.val = {"D", "v"}
          /\ OutOfBand(call.flow_rate, call.v_target, call.v_min, call.v_max)
               <=> Adjustments(diag) # <<>>
  /\ DesignCall
       => /\ res.err = "none"
          /\ DOMAIN res.val = DesignKeys
          /\ OutOfBand(FDiv(call.flow_rate_m3h, FromInt(3600)), call.v_target,
                       V_MIN, V_MAX)
               <=> Adjustments(diag) # <<>>

\* A design whose sizing was adjusted: a record is returned, the warning
\* was given beside it.
C12_Witness ==
  /\ DesignCall
  /\ res.err = "none"
  /\ diag = <<"Velocity below minimum">>
  /\ DOMAIN res.val = DesignKeys

\* C12, as stated: the result of an adjusted sizing carries the diagnostic,
\* in a component besides the values it otherwise has.
C12_AnnotationOnResult ==
  /\ (Returned("optimal_pipe_diameter") /\ Adjustments(diag) # <<>>)
       => DOMAIN res.val \ {"D", "v"} # {}
  /\ (Returned("pipe_design_summary") /\ Adjustments(diag) # <<>>)
       => DOMAIN res.val \ DesignKeys # {}

\* The Darcy-Weisbach drop  f * (L / D) * (rho * v^2 / 2)  of a record, over
\* the length L.
RecordDrop(r, L) ==
  FMul(FMul(r.friction_factor, PyDiv(L, r.D_internal_m)),
       dynamic_pressure(WATER_RHO, r.velocity_m_s))

\* The drop  K_total * rho * v^2 / 2  over the fittings of the call at the
\* velocity of a record.
RecordMinorLoss(r) ==
  pressure_drop_minor_losses(r.velocity_m_s,
                             K_total_from(call.fittings, 1, FZero), WATER_RHO)

\* C13: the total pressure drop of a design record is the Darcy-Weisbach
\* drop over the straight length plus the equivalent length of the fittings;
\* the minor loss is not added, so the total equals the friction drop.
C13_TotalIsFrictionOverTotalLength ==
  Returned("pipe_design_summary") =>
    /\ res.val.length_equivalent_m
         = equivalent_length(call.fittings, res.val.D_internal_m)
    /\ res.val.length_total_m
         = FAdd(res.val.length_straight_m, res.val.length_equivalent_m)
    /\ res.val.pressure_drop_total_Pa = RecordDrop(res.val, res.val.length_total_m)
    /\ res.val.pressure_drop_total_Pa = res.val.pressure_drop_friction_Pa

\* A design with fittings: their minor loss is positive, and the total is
\* the friction drop over the longer length.
C13_Witness ==
  /\ Returned("pipe_design_summary")
  /\ call.fittings # <<>>
  /\ FGt(RecordMinorLoss(res.val), FZero)
  /\ FGt(res.val.length_equivalent_m, FZero)
  /\ FGt(res.val.pressure_drop_total_Pa,
         RecordDrop(res.val, res.val.length_straight_m))
  /\ res.val.pressure_drop_total_Pa = res.val.pressure_drop_friction_Pa

\* count * K * D / 0.02 of the first n fittings, summed in their order
RECURSIVE SumLengths(_, _, _)
SumLengths(fittings, D, n) ==
  IF n = 0 THEN FZero
  ELSE FAdd(SumLengths(fittings, D, n - 1),
            FDiv(FMul(FMul(FromInt(fittings[n][2]), K_values[fittings[n][1]]), D),
                 Lit(2, 2)))

\* C14: the equivalent length is the sum of count * K * D / 0.02 over the
\* fittings, with 0.02 fixed: of the velocity, the Reynolds number and the
\* friction factor of the design nothing enters it.
C14_EquivalentLengthFixedFactor ==
  /\ Returned("equivalent_length")
       => res.val = SumLengths(call.fittings, call.diameter, Len(call.fittings))
  /\ Returned("pipe_design_summary")
       => res.val.length_equivalent_m
            = SumLengths(call.fittings, res.val.D_internal_m, Len(call.fittings))

\* A laminar design with fittings: its friction factor is far from 0.02,
\* the equivalent length is computed with 0.02 all the same.
C14_Witness ==
  /\ Returned("pipe_design_summary")
  /\ call.fittings # <<>>
  /\ res.val.flow_regime = "laminar"
  /\ FGt(res.val.friction_factor, Lit(3, 2))
  /\ FGt(res.val.length_equivalent_m, FZero)
  /\ res.val.length_equivalent_m
       = SumLengths(call.fittings, res.val.D_internal_m, Len(call.fittings))

\* A finished call of pipe_design_summary with the flow rate 0.
ZeroFlowDesign ==
  /\ pc = "done"
  /\ call.fn = "pipe_design_summary"
  /\ IsZero(call.flow_rate_m3h)

\* C15: pipe_design_summary with the flow rate 0 raises an error and returns
\* no record, none with the pressure drop 0 either.  Where the other
\* arguments are good the error is the ZeroDivisionError of 64 / Re.
C15_ZeroFlowRaises ==
  ZeroFlowDesign =>
    /\ res.err # "none"
    /\ res.val = NoValue
    /\ (/\ FGt(call.v_target, FZero)
        /\ call.material \in Materials
        /\ \A i \in 1..Len(call.fittings) : call.fittings[i][1] \in FittingTypes)
         => res.err = "ZeroDivisionError"

\* Flow rate 0 with good arguments otherwise: the sizing divides 0 by 0 with
\* a warning and goes on, the laminar friction factor raises.
C15_Witness ==
  /\ ZeroFlowDesign
  /\ FGt(call.v_target, FZero)
  /\ FGt(call.length, FZero)
  /\ call.material \in Materials
  /\ call.fittings # <<>>
  /\ diag = <<"RuntimeWarning">>
  /\ res = Raise("ZeroDivisionError")

\* C16, as stated: pipe_design_summary with a negative flow rate, or with a
\* length that is not positive, raises an error and returns no record.
C16_NonPhysicalDesignRaises ==
  (/\ pc = "done"
   /\ call.fn = "pipe_design_summary"
   /\ \/ FLt(call.flow_rate_m3h, FZero)
      \/ ~FGt(call.length, FZero))
    => res.err # "none"

\* C17, as stated: pressure_drop_darcy_weisbach has no side effect, returns
\* for every diameter > 0 and velocity >= 0, and raises an error for every
\* diameter <= 0 or velocity < 0.  (The viscosity is taken positive.)
C17_PressureDropDomain ==
  (/\ pc = "done"
   /\ call.fn = "pressure_drop_darcy_weisbach"
   /\ FGt(call.mu, FZero))
    => /\ diag = <<>>
       /\ (FGt(call.diameter, FZero) /\ ~FLt(call.velocity, FZero))
            => res.err = "none"
       /\ (~FGt(call.diameter, FZero) \/ FLt(call.velocity, FZero))
            => res.err # "none"

\* Some fitting of the call is not in the table of K.
UnknownFitting ==
  \E i \in 1..Len(call.fittings) : call.fittings[i][1] \notin FittingTypes

\* C18: a miss in a table is an error and never a default:
\* pipe_design_summary with a material out of PIPE_ROUGHNESS, or with a
\* fitting out of the table of K, whatever its count, raises an error and
\* returns no record.  After a sizing that did not raise, the error is the
\* KeyError of the material, or else the ValueError of the fitting; and
\* equivalent_length raises for such a fitting as well.
C18_LookupMissRaises ==
  /\ (/\ pc = "done"
      /\ call.fn = "pipe_design_summary"
      /\ (call.material \notin Materials \/ UnknownFitting))
       => /\ res.err # "none"
          /\ res.val = NoValue
          /\ FGt(call.v_target, FZero)
               => res.err = IF call.material \notin Materials THEN "KeyError"
                            ELSE "ValueError"
  /\ (pc = "done" /\ call.fn = "equivalent_length" /\ UnknownFitting)
       => res = Raise("ValueError")

\* A design with a known material and a fitting out of the table that is
\* counted zero times: the ValueError all the same.
C18_Witness ==
  /\ pc = "done"
  /\ call.fn = "pipe_design_summary"
  /\ call.material \in Materials
  /\ FGt(call.v_target, FZero)
  /\ FGt(call.flow_rate_m3h, FZero)
  /\ \E i \in 1..Len(call.fittings) :
       call.fittings[i][1] \notin FittingTypes /\ call.fittings[i][2] = 0
  /\ res = Raise("ValueError")

\* C19, as stated: in every result of pressure_drop_darcy_weisbach and of
\* pipe_design_summary the Reynolds number, the friction factor and the
\* pressure drop are not negative.
C19_NonNegativeResults ==
  /\ Returned("pressure_drop_darcy_weisbach")
       => /\ ~FLt(res.val.Re, FZero)
          /\ ~FLt(res.val.f, FZero)
          /\ ~FLt(res.val.dP, FZero)
  /\ Returned("pipe_design_summary")
       => /\ ~FLt(res.val.Reynolds, FZero)
          /\ ~FLt(res.val.friction_factor, FZero)
          /\ ~FLt(res.val.pressure_drop_friction_Pa, FZero)
          /\ ~FLt(res.val.pressure_drop_total_Pa, FZero)

\* the epsilon of the continuity at the boundaries, 1e-3
Epsilon == Lit(1, 3)

\* The friction factor at the boundary Re = n, for the roughness, diameter
\* and method of the call.
AtBoundary(n) ==
  friction_factor(FromInt(n), call.roughness, call.diameter, call.method)

\* The call is of friction_factor, for a pipe with a diameter and by one of
\* the two methods, with Re from lo to hi.
NearBoundary(lo, hi) ==
  /\ Returned("friction_factor")
  /\ FGt(call.diameter, FZero)
  /\ call.method \in {"swamee-jain", "colebrook-white"}
  /\ ~FLt(call.Re, FromInt(lo))
  /\ ~FGt(call.Re, FromInt(hi))

\* C20: friction_factor is continuous in Re at the two boundaries, for a
\* fixed roughness, diameter > 0 and method: its value just below Re = 2300
\* is within 1e-3 of its value at 2300, and its value just above Re = 4000
\* within 1e-3 of its value at 4000.
C20_ContinuousAtBoundaries ==
  /\ NearBoundary(2300 - ReSpan, 2300)
       => FLt(FAbs(FSub(res.val, AtBoundary(2300))), Epsilon)
  /\ NearBoundary(4000, 4000 + ReSpan)
       => FLt(FAbs(FSub(res.val, AtBoundary(4000))), Epsilon)

\* Re = 4001 by Colebrook-White in a rough pipe: the turbulent value is not
\* the interpolated value of Re = 4000, and is within 1e-3 of it.
C20_Witness ==
  /\ Returned("friction_factor")
  /\ call.Re = FromInt(4001)
  /\ call.method = "colebrook-white"
  /\ FGt(call.roughness, FZero)
  /\ res.val # AtBoundary(4000)
  /\ FLt(FAbs(FSub(res.val, AtBoundary(4000))), Epsilon)

\* The outcome of pressure_drop_darcy_weisbach for the velocity v and the
\* other arguments of the call.
DropAt(v) ==
  pressure_drop_darcy_weisbach(v, call.length, call.diameter, call.roughness,
                               call.rho, call.mu)

\* The outcome out is a return whose pressure drop is dP or above it.
NotBelow(out, dP) == IsOk(out) /\ (FGt(out.val.dP, dP) \/ out.val.dP = dP)

\* C21: for a fixed length, diameter, roughness and fluid,
\* pressure_drop_darcy_weisbach is non-decreasing in the velocity over the
\* laminar, transitional and turbulent regimes and across Re = 2300 and
\* Re = 4000: where it returns for a velocity > 0, it returns for every
\* greater velocity a pressure drop that is not below.
C21_MonotoneInVelocity ==
  (Returned("pressure_drop_darcy_weisbach") /\ FGt(call.velocity, FZero))
    => \A v \in VelocityInputs :
         FGt(v, call.velocity) => NotBelow(DropAt(v), res.val.dP)

\* A laminar result just below Re = 2300, with a greater velocity that is
\* transitional and one that is turbulent, both with a greater drop.
C21_Witness ==
  /\ Returned("pressure_drop_darcy_weisbach")
  /\ call.velocity = Lit(2299, 3)
  /\ res.val.regime = "laminar"
  /\ \E v, w \in VelocityInputs :
       /\ FGt(v, call.velocity)
       /\ FGt(w, v)
       /\ IsOk(DropAt(v))
       /\ DropAt(v).val.regime = "transitional"
       /\ FGt(DropAt(v).val.dP, res.val.dP)
       /\ IsOk(DropAt(w))
       /\ DropAt(w).val.regime = "turbulent"
       /\ FGt(DropAt(w).val.dP, DropAt(v).val.dP)

\* The call of the end-to-end scenario has ended: 8.61 m3/h through 6.2 m
\* of commercial steel with two elbows and an open gate valve, sized for
\* 2 m/s.
ScenarioCall ==
  /\ pc = "done"
  /\ call.fn = "pipe_design_summary"
  /\ call.flow_rate_m3h = Lit(861, 2)
  /\ call.length = Lit(62, 1)
  /\ call.fittings = ScenarioFittings
  /\ call.material = "commercial_steel"
  /\ call.v_target = FromInt(2)

\* lo < x < hi
Between(x, lo, hi) == FGt(x, lo) /\ FLt(x, hi)

\* C22: the end-to-end scenario returns DN 40 with its internal diameter of
\* 34 mm, a velocity between 2.6 and 2.7 m/s, a Reynolds number above 4000
\* with the regime 'turbulent', and a pressure drop between 20 and 25 kPa.
C22_Scenario ==
  ScenarioCall
    => /\ res.err = "none"
       /\ res.val.DN = 40
       /\ res.val.D_internal_mm = FromInt(34)
       /\ Between(res.val.velocity_m_s, Lit(26, 1), Lit(27, 1))
       /\ FGt(res.val.Reynolds, FromInt(4000))
       /\ res.val.flow_regime = "turbulent"
       /\ Between(res.val.pressure_drop_total_kPa, FromInt(20), FromInt(25))

\* The scenario has returned a design of DN 40 in turbulent flow.
C22_Witness ==
  /\ ScenarioCall
  /\ res.err = "none"
  /\ res.val.DN = 40
  /\ res.val.flow_regime = "turbulent"

\* C22, as stated: the scenario returns DN 40, a velocity between 1.9 and
\* 2.3 m/s, a Reynolds number above 4000 with the regime 'turbulent', and a
\* pressure drop of a few kPa (between 1 and 10 kPa).
C22_ScenarioAsStated ==
  ScenarioCall
    => /\ res.err = "none"
       /\ res.val.DN = 40
       /\ Between(res.val.velocity_m_s, Lit(19, 1), Lit(23, 1))
       /\ FGt(res.val.Reynolds, FromInt(4000))
       /\ res.val.flow_regime = "turbulent"
       /\ Between(res.val.pressure_drop_total_kPa, FromInt(1), FromInt(10))

----------------------------------------------------------------------------
(* What the calls leave behind, and the same call made again *)

\* The adjustment warnings of the call c that gave the warnings w.
CallKeys(c, w) ==
  IF c.fn = "optimal_pipe_diameter" THEN adjustment_keys(w, c.v_min, c.v_max)
  ELSE adjustment_keys(w, V_MIN, V_MAX)

\* The tables are as the import left them, and the mapping the caller
\* passed is as it was passed.
TablesAndFittingsKept ==
  /\ mem.PIPE_ROUGHNESS = PIPE_ROUGHNESS
  /\ mem.STANDARD_DN = STANDARD_DN
  /\ (pc = "done" /\ call.fn \in {"equivalent_length", "pipe_design_summary"})
       => mem.fittings = call.fittings

\* A call that raised has no value.
NoPartialResult == (pc = "done" /\ res.err # "none") => res.val = NoValue

----------------------------------------------------------------------------
(* The regime and the friction factor of one result *)

\* C25: in every result of pressure_drop_darcy_weisbach the regime is the
\* branch that friction_factor took for the same Re, with the factor of
\* that branch: "laminar" with Re < 2300 and f = 64/Re, "turbulent" with
\* Re > 4000 and f the Swamee-Jain value at Re, "transitional" with
\* neither and f the interpolated value with the Swamee-Jain value at 4000.
C25_RegimeMatchesFactor ==
  Returned("pressure_drop_darcy_weisbach")
    => CASE res.val.regime = "laminar"
              -> /\ FLt(res.val.Re, FromInt(2300))
                 /\ res.val.f = friction_factor_laminar(res.val.Re)
         [] res.val.regime = "turbulent"
              -> /\ FGt(res.val.Re, FromInt(4000))
                 /\ res.val.f = swamee_jain(res.val.Re,
                                            PyDiv(call.roughness, call.diameter))
         [] res.val.regime = "transitional"
              -> /\ ~FLt(res.val.Re, FromInt(2300))
                 /\ ~FGt(res.val.Re, FromInt(4000))
                 /\ res.val.f =
                      interpolate(friction_factor_laminar(FromInt(2300)),
                                  swamee_jain(FromInt(4000),
                                              PyDiv(call.roughness, call.diameter)),
                                  res.val.Re)
         [] OTHER -> FALSE

\* A result at Re = 4000, where both tests say transitional.
C25_Witness ==
  /\ Returned("pressure_drop_darcy_weisbach")
  /\ res.val.Re = FromInt(4000)
  /\ res.val.regime = "transitional"
  /\ res.val.f = interpolate(friction_factor_laminar(FromInt(2300)),
                             swamee_jain(FromInt(4000),
                                         PyDiv(call.roughness, call.diameter)),
                             FromInt(4000))

----------------------------------------------------------------------------
(* What the Colebrook-White loop returns *)

\* The call of friction_factor_turbulent by Colebrook-White is over, after
\* at least one update.
CWDone ==
  /\ pc = "done"
  /\ call.fn = "friction_factor_turbulent"
  /\ call.method = "colebrook-white"
  /\ cw.i > 0

\* C26: when the loop stopped early, at an update within 1e-6 of the
\* iterate before it, the value returned is that iterate before it - the
\* Swamee-Jain seed itself when it was the first update - and not the
\* update; when it did not stop early, all 10 updates were made and the
\* tenth is returned.
C26_EarlyStopReturnsPrevious ==
  CWDone
    => IF cw.brk
       THEN /\ res = Ok(cw.f)
            /\ cw.f_new = cw_update(cw.Re, cw.rr, cw.f)
            /\ cw_converged(cw.f_new, cw.f)
            /\ cw.i = 1 => cw.f = swamee_jain(cw.Re, cw.rr)
       ELSE /\ cw.i = CW_MAX_ITER
            /\ CW_MAX_ITER = 10
            /\ res = Ok(cw.f_new)

\* The loop stopped at its first update, which was not the seed, and the
\* seed was returned.
C26_Witness ==
  /\ CWDone
  /\ cw.brk
  /\ cw.i = 1
  /\ cw.f_new # cw.f
  /\ res.val = swamee_jain(cw.Re, cw.rr)

----------------------------------------------------------------------------
(* A method that friction_factor_turbulent does not know *)

\* friction_factor was called with a method other than the two it has.
UnknownMethodCall ==
  /\ pc = "done"
  /\ call.fn = "friction_factor"
  /\ call.method \notin {"swamee-jain", "colebrook-white"}

\* C27: with a method other than 'swamee-jain' and 'colebrook-white',
\* friction_factor does not look at the method for Re < 2300 and has the
\* outcome of 64/Re; from Re = 2300 on it raises: ValueError when the
\* diameter is not 0, and ZeroDivisionError when it is, the division
\* roughness / diameter coming before the test of the method.
C27_UnknownMethodRaisesFrom2300 ==
  UnknownMethodCall
    => IF FLt(call.Re, FromInt(2300))
       THEN res = Outcome(friction_factor_laminar(call.Re))
       ELSE res = Raise(IF IsZero(call.diameter) THEN "ZeroDivisionError"
                        ELSE "ValueError")

\* At Re = 2300 exactly, with a diameter, the unknown method raises.
C27_Witness ==
  /\ UnknownMethodCall
  /\ call.Re = FromInt(2300)
  /\ ~IsZero(call.diameter)
  /\ res = Raise("ValueError")

\* C27 as the specification has it: ValueError exactly from Re = 2300 on.
C27_ValueErrorExactlyFrom2300 ==
  UnknownMethodCall => (res.err = "ValueError" <=> ~FLt(call.Re, FromInt(2300)))

----------------------------------------------------------------------------
(* The log mean temperature difference *)

\* The two differences of the call: hot in - cold out, hot out - cold in.
CalldT1 == FSub(call.T_hot_in, call.T_cold_out)
CalldT2 == FSub(call.T_hot_out, call.T_cold_in)

\* What C28 says of a finished call of an LMTD function.
LmtdChecked ==
  /\ (FLe(CalldT1, FZero) \/ FLe(CalldT2, FZero)) => res = Raise("ValueError")
  /\ res.err = "none" => FGt(res.val, FZero)
  /\ (FGt(CalldT1, FZero) /\ CalldT1 = CalldT2) => res = Ok(CalldT1)

\* C28: heat_transfer.lmtd and heat_exchangers.lmtd_counterflow raise
\* ValueError whenever dT1 <= 0 or dT2 <= 0, equal differences included,
\* and so return no LMTD that is not positive; with equal positive
\* differences they return dT1.
C28_LmtdRejectsNonPositive ==
  (pc = "done" /\ call.fn \in {"lmtd", "lmtd_counterflow"}) => LmtdChecked

\* The same of lmtd_counterflow alone.
LmtdCounterflowChecked == (pc = "done" /\ call.fn = "lmtd_counterflow") => LmtdChecked

----------------------------------------------------------------------------
(* The reading of the Richardson number *)

\* stratification_quality has answered.
Assessed == pc = "done" /\ call.fn = "stratification_quality" /\ res.err = "none"

----------------------------------------------------------------------------
(* The choice of a plate heat exchanger *)

\* select_commercial_plate_hx is over.
PlateCall == pc = "done" /\ call.fn = "select_commercial_plate_hx"

\* The plates of the i-th model for the area of the call: the least even
\* number that the quotient area / plate area, as computed, is not above.
PlatesNeeded(i) ==
  CHOOSE n \in {2 * k : k \in -5..200} :
    /\ FLe(PyDiv(call.area_required, COMMERCIAL_PLATE_HX[i].plate_area_m2), FromInt(n))
    /\ ~FLe(PyDiv(call.area_required, COMMERCIAL_PLATE_HX[i].plate_area_m2),
            FromInt(n - 2))

\* The i-th model satisfies both limits for the call.
ModelFits(i) ==
  /\ PlatesNeeded(i) <= COMMERCIAL_PLATE_HX[i].max_plates
  /\ FLe(call.heat_duty_kW, FromInt(COMMERCIAL_PLATE_HX[i].max_heat_duty_kW))

\* The i-th model is the first that fits, and the call returned it with
\* its plates and with the total area and the factor computed from them.
FirstFitReturned(i) ==
  /\ ModelFits(i)
  /\ \A j \in 1..(i - 1) : ~ModelFits(j)
  /\ res.err = "none"
  /\ res.val # PyNone
  /\ res.val.model = COMMERCIAL_PLATE_HX[i].name
  /\ res.val.specs = COMMERCIAL_PLATE_HX[i]
  /\ res.val.num_plates = PlatesNeeded(i)
  /\ res.val.total_area_m2
       = FMul(FromInt(PlatesNeeded(i)), COMMERCIAL_PLATE_HX[i].plate_area_m2)
  /\ res.val.oversizing_factor = FDiv(res.val.total_area_m2, call.area_required)

====
